---------------------------- MODULE Spec2Model ----------------------------
(***************************************************************************)
(* dnspulse_exporter: configuration loading, the resolver factory, the six *)
(* resolver variants' Query return paths, and the Prober's probe cycle.    *)
(*                                                                         *)
(* Strings are Go strings; "nil" stands for a nil pointer / nil error /    *)
(* nil *dns.Msg.  Durations are natural numbers (clock ticks).             *)
(***************************************************************************)
EXTENDS Integers, Sequences, FiniteSets, TLC

(***************************************************************************)
(* Bounds of the explored configurations.                                  *)
(***************************************************************************)
MaxDomains == 2
MaxServers == 2
MaxProbes  == 3
MaxMatrix  == 4
MaxCloses  == 2
MaxCycles  == 2
MaxCalls   == 3

(***************************************************************************)
(* internal/config: protocol tags and defaults.                            *)
(***************************************************************************)
ProtocolDo53UDP == "do53-udp"
ProtocolDo53TCP == "do53-tcp"
ProtocolDoT     == "dot"
ProtocolDoH     == "doh"
ProtocolDoH3    == "doh3"
ProtocolDoQ     == "doq"

ValidProtocols ==
  {ProtocolDo53UDP, ProtocolDo53TCP, ProtocolDoT, ProtocolDoH, ProtocolDoH3, ProtocolDoQ}

IsEncryptedProtocol(protocol) ==
  protocol = ProtocolDoT \/ protocol = ProtocolDoH \/
  protocol = ProtocolDoH3 \/ protocol = ProtocolDoQ

\* Variant: the doq and doh rows exchanged.
defaultPortForProtocolSwapped(protocol) ==
  CASE protocol \in {ProtocolDo53UDP, ProtocolDo53TCP} -> "53"
    [] protocol \in {ProtocolDoT, ProtocolDoH}         -> "853"
    [] protocol \in {ProtocolDoQ, ProtocolDoH3}        -> "443"
    [] OTHER                                           -> "53"

defaultPortForProtocol(protocol) ==
  CASE protocol \in {ProtocolDo53UDP, ProtocolDo53TCP} -> "53"
    [] protocol \in {ProtocolDoT, ProtocolDoQ}         -> "853"
    [] protocol \in {ProtocolDoH, ProtocolDoH3}        -> "443"
    [] OTHER                                           -> "53"

\* A *TLSConfig: present = FALSE is the nil pointer.
NoTLS == [present |-> FALSE, ServerName |-> "", InsecureSkipVerify |-> FALSE]

\* Variant: the wrong do53 constant as the default protocol.
applyDefaultsServerTCP(s) ==
  LET p == IF s.Protocol = "" THEN ProtocolDo53TCP ELSE s.Protocol
  IN  [s EXCEPT !.Protocol = p,
                !.Port = IF s.Port = "" THEN defaultPortForProtocol(p) ELSE s.Port]

\* applyDefaults on one server entry: protocol first, then the port of the
\* (possibly just defaulted) protocol.
applyDefaultsServer(s) ==
  LET p == IF s.Protocol = "" THEN ProtocolDo53UDP ELSE s.Protocol
  IN  [s EXCEPT !.Protocol = p,
                !.Port = IF s.Port = "" THEN defaultPortForProtocol(p) ELSE s.Port]

applyDefaults(c) ==
  [c EXCEPT !.DNSServers = [i \in 1..Len(c.DNSServers) |-> applyDefaultsServer(c.DNSServers[i])]]

\* validate on one server entry that passed the protocol check: fills the TLS
\* server name of an encrypted protocol.
validateServer(s) ==
  IF IsEncryptedProtocol(s.Protocol)
  THEN IF ~s.TLS.present
       THEN [s EXCEPT !.TLS = [present |-> TRUE, ServerName |-> s.Address,
                               InsecureSkipVerify |-> FALSE]]
       ELSE IF s.TLS.ServerName = ""
            THEN [s EXCEPT !.TLS.ServerName = s.Address]
            ELSE s
  ELSE s

\* validate: error of the first server with an unknown protocol, else the
\* config with TLS names filled in.
validate(c) ==
  IF \E i \in 1..Len(c.DNSServers) : c.DNSServers[i].Protocol \notin ValidProtocols
  THEN [err |-> "invalid protocol", config |-> c]
  ELSE [err |-> "nil",
        config |-> [c EXCEPT !.DNSServers =
                      [i \in 1..Len(c.DNSServers) |-> validateServer(c.DNSServers[i])]]]

\* Variant: the configuration validated as written, defaults applied after.
LoadConfigValidatesFirst(c) ==
  LET v == validate(c)
  IN  IF v.err # "nil" THEN v ELSE [err |-> "nil", config |-> applyDefaults(v.config)]

\* Load, after the file has been read and unmarshalled into c.
LoadConfig(c) == validate(applyDefaults(c))

(***************************************************************************)
(* internal/resolver: the variants and the factory.                        *)
(***************************************************************************)
NilResolver == [variant |-> "nil"]

\* Variant: the protocol tag not switched with useTCP.
NewDo53ResolverAlwaysUDP(address, port, useTCP, timeout) ==
  [variant  |-> "do53",
   address  |-> address,
   port     |-> port,
   useTCP   |-> useTCP,
   timeout  |-> timeout,
   net      |-> IF useTCP THEN "tcp" ELSE "udp",
   protocol |-> "do53-udp"]

NewDo53Resolver(address, port, useTCP, timeout) ==
  [variant  |-> "do53",
   address  |-> address,
   port     |-> port,
   useTCP   |-> useTCP,
   timeout  |-> timeout,
   net      |-> IF useTCP THEN "tcp" ELSE "udp",
   protocol |-> IF useTCP THEN "do53-tcp" ELSE "do53-udp"]

NewDoTResolver(address, port, serverName, insecureSkipVerify, timeout) ==
  [variant |-> "dot", address |-> address, port |-> port, timeout |-> timeout,
   serverName |-> serverName, insecure |-> insecureSkipVerify]

NewDoHResolver(address, port, serverName, insecureSkipVerify, timeout) ==
  [variant |-> "doh",
   url |-> "https://" \o address \o ":" \o port \o "/dns-query",
   host |-> serverName, timeout |-> timeout,
   serverName |-> serverName, insecure |-> insecureSkipVerify]

NewDoH3Resolver(address, port, serverName, insecureSkipVerify, timeout) ==
  [variant |-> "doh3",
   url |-> "https://" \o address \o ":" \o port \o "/dns-query",
   host |-> serverName, timeout |-> timeout,
   serverName |-> serverName, insecure |-> insecureSkipVerify]

NewDoQResolver(address, port, serverName, insecureSkipVerify, timeout) ==
  [variant |-> "doq", address |-> address, port |-> port, timeout |-> timeout,
   serverName |-> serverName, insecure |-> insecureSkipVerify]

\* Variant: the HTTP/3 transport may fail to close although never used.
ResolverCloseUnusedMayFail(r, used) ==
  IF r.variant = "doh3" THEN {"nil", "close error"} ELSE {"nil"}

\* Resolver.Close, per variant: what it can return.  Do53, DoT and DoQ hold
\* nothing and return nil; DoH drops idle connections and returns nil; DoH3
\* returns what closing its HTTP/3 transport returns, which is nil when the
\* transport never dialled.
ResolverClose(r, used) ==
  IF r.variant = "doh3" /\ used THEN {"nil", "close error"} ELSE {"nil"}

Protocol(r) ==
  CASE r.variant = "do53" -> r.protocol
    [] r.variant = "dot"  -> "dot"
    [] r.variant = "doh"  -> "doh"
    [] r.variant = "doh3" -> "doh3"
    [] r.variant = "doq"  -> "doq"

\* Variant: the configured name taken as it is whenever a tls block exists.
extractTLSConfigNoFallback(server) ==
  [serverName |-> IF server.TLS.present
                  THEN server.TLS.ServerName ELSE server.Address,
   insecure   |-> IF server.TLS.present THEN server.TLS.InsecureSkipVerify ELSE FALSE]

extractTLSConfig(server) ==
  [serverName |-> IF server.TLS.present /\ server.TLS.ServerName # ""
                  THEN server.TLS.ServerName ELSE server.Address,
   insecure   |-> IF server.TLS.present THEN server.TLS.InsecureSkipVerify ELSE FALSE]

\* Variant: the default branch falls back to do53-udp instead of failing.
NewResolverDefaultsUDP(server, timeout) ==
  LET t == extractTLSConfig(server)
      ok(r) == [r |-> r, err |-> "nil"]
  IN  CASE server.Protocol = ProtocolDo53TCP ->
             ok(NewDo53Resolver(server.Address, server.Port, TRUE, timeout))
        [] server.Protocol = ProtocolDoT ->
             ok(NewDoTResolver(server.Address, server.Port, t.serverName, t.insecure, timeout))
        [] server.Protocol = ProtocolDoH ->
             ok(NewDoHResolver(server.Address, server.Port, t.serverName, t.insecure, timeout))
        [] server.Protocol = ProtocolDoH3 ->
             ok(NewDoH3Resolver(server.Address, server.Port, t.serverName, t.insecure, timeout))
        [] server.Protocol = ProtocolDoQ ->
             ok(NewDoQResolver(server.Address, server.Port, t.serverName, t.insecure, timeout))
        [] OTHER ->
             ok(NewDo53Resolver(server.Address, server.Port, FALSE, timeout))

NewResolver(server, timeout) ==
  LET t == extractTLSConfig(server)
      ok(r) == [r |-> r, err |-> "nil"]
  IN  CASE server.Protocol = ProtocolDo53UDP ->
             ok(NewDo53Resolver(server.Address, server.Port, FALSE, timeout))
        [] server.Protocol = ProtocolDo53TCP ->
             ok(NewDo53Resolver(server.Address, server.Port, TRUE, timeout))
        [] server.Protocol = ProtocolDoT ->
             ok(NewDoTResolver(server.Address, server.Port, t.serverName, t.insecure, timeout))
        [] server.Protocol = ProtocolDoH ->
             ok(NewDoHResolver(server.Address, server.Port, t.serverName, t.insecure, timeout))
        [] server.Protocol = ProtocolDoH3 ->
             ok(NewDoH3Resolver(server.Address, server.Port, t.serverName, t.insecure, timeout))
        [] server.Protocol = ProtocolDoQ ->
             ok(NewDoQResolver(server.Address, server.Port, t.serverName, t.insecure, timeout))
        [] OTHER ->
             [r |-> NilResolver, err |-> "unsupported protocol"]


(***************************************************************************)
(* Query.  The network and the libraries behind it (miekg/dns, net/http,   *)
(* quic-go) are the environment: `fail` names the first step of the call   *)
(* that fails ("none" when every step succeeds) and `elapsed` is what      *)
(* time.Since(start) returns.  A QueryResult is Response, Duration, Err;   *)
(* `timed` records whether the return statement assigned Duration (Go      *)
(* leaves an unassigned Duration at its zero value).                       *)
(***************************************************************************)
MalformedNames == {"bad..example"}

\* msg.Pack() succeeds unless the name has an empty or over-long label.
PackOK(name) == name \notin MalformedNames

NonNumericPorts == {"x"}

\* url.Parse, inside http.NewRequestWithContext, rejects a non-numeric port.
URLParses(url) ==
  \A a \in {"192.0.2.1", "198.51.100.7"}, p \in NonNumericPorts :
     url # "https://" \o a \o ":" \o p \o "/dns-query"

\* What client.ExchangeContext (miekg/dns) can hand back as (resp, err): a
\* message alone, an error alone, or the message it could only partly unpack
\* (or whose ID did not match) together with that error.
ExchangeResult(fail) ==
  CASE fail = "none"     -> [resp |-> "msg", err |-> "nil"]
    [] fail = "truncated" -> [resp |-> "truncated msg", err |-> "nil"]
    [] fail = "response" -> [resp |-> "msg", err |-> "bad response"]
    [] OTHER             -> [resp |-> "nil", err |-> "exchange failed"]

\* Variant: a truncated UDP reply is followed by a second exchange over TCP.
Do53QueryFallsBackToTCP(r, name, fail, elapsed) ==
  LET x == ExchangeResult(IF fail = "truncated" THEN "none" ELSE fail)
  IN  [Response |-> x.resp, Duration |-> elapsed, Err |-> x.err, timed |-> TRUE]

Do53Query(r, name, fail, elapsed) ==
  LET x == ExchangeResult(fail)
  IN  [Response |-> x.resp, Duration |-> elapsed, Err |-> x.err, timed |-> TRUE]

DoTQuery(r, name, fail, elapsed) ==
  LET x == ExchangeResult(fail)
  IN  [Response |-> x.resp, Duration |-> elapsed, Err |-> x.err, timed |-> TRUE]

\* Variant: the partly decoded message is returned with the unpack error.
DoHQueryKeepsPartial(r, name, fail, elapsed) ==
  IF fail = "pack"
  THEN [Response |-> "nil", Duration |-> 0, Err |-> "failed to pack DNS message", timed |-> FALSE]
  ELSE IF fail = "request"
  THEN [Response |-> "nil", Duration |-> 0, Err |-> "failed to create HTTP request", timed |-> FALSE]
  ELSE IF fail = "do"
  THEN [Response |-> "nil", Duration |-> elapsed, Err |-> "HTTP/2 request failed", timed |-> TRUE]
  ELSE IF fail = "status"
  THEN [Response |-> "nil", Duration |-> elapsed, Err |-> "HTTP status", timed |-> TRUE]
  ELSE IF fail = "read"
  THEN [Response |-> "nil", Duration |-> elapsed, Err |-> "failed to read response body", timed |-> TRUE]
  ELSE IF fail = "unpack"
  THEN [Response |-> "msg", Duration |-> elapsed, Err |-> "failed to unpack DNS response", timed |-> TRUE]
  ELSE [Response |-> "msg", Duration |-> elapsed, Err |-> "nil", timed |-> TRUE]

DoHQuery(r, name, fail, elapsed) ==
  IF fail = "pack"
  THEN [Response |-> "nil", Duration |-> 0, Err |-> "failed to pack DNS message", timed |-> FALSE]
  ELSE IF fail = "request"
  THEN [Response |-> "nil", Duration |-> 0, Err |-> "failed to create HTTP request", timed |-> FALSE]
  ELSE IF fail = "do"
  THEN [Response |-> "nil", Duration |-> elapsed, Err |-> "HTTP/2 request failed", timed |-> TRUE]
  ELSE IF fail = "status"
  THEN [Response |-> "nil", Duration |-> elapsed, Err |-> "HTTP status", timed |-> TRUE]
  ELSE IF fail = "read"
  THEN [Response |-> "nil", Duration |-> elapsed, Err |-> "failed to read response body", timed |-> TRUE]
  ELSE IF fail = "unpack"
  THEN [Response |-> "nil", Duration |-> elapsed, Err |-> "failed to unpack DNS response", timed |-> TRUE]
  ELSE [Response |-> "msg", Duration |-> elapsed, Err |-> "nil", timed |-> TRUE]

DoH3Query(r, name, fail, elapsed) ==
  IF fail = "pack"
  THEN [Response |-> "nil", Duration |-> 0, Err |-> "failed to pack DNS message", timed |-> FALSE]
  ELSE IF fail = "request"
  THEN [Response |-> "nil", Duration |-> 0, Err |-> "failed to create HTTP request", timed |-> FALSE]
  ELSE IF fail = "do"
  THEN [Response |-> "nil", Duration |-> elapsed, Err |-> "HTTP/3 request failed", timed |-> TRUE]
  ELSE IF fail = "status"
  THEN [Response |-> "nil", Duration |-> elapsed, Err |-> "HTTP status", timed |-> TRUE]
  ELSE IF fail = "read"
  THEN [Response |-> "nil", Duration |-> elapsed, Err |-> "failed to read response body", timed |-> TRUE]
  ELSE IF fail = "unpack"
  THEN [Response |-> "nil", Duration |-> elapsed, Err |-> "failed to unpack DNS response", timed |-> TRUE]
  ELSE [Response |-> "msg", Duration |-> elapsed, Err |-> "nil", timed |-> TRUE]

\* Variant: the dial failure returned without its Duration.
DoQQueryDialUntimed(r, name, fail, elapsed) ==
  IF fail = "pack"
  THEN [Response |-> "nil", Duration |-> 0, Err |-> "failed to pack DNS message", timed |-> FALSE]
  ELSE IF fail = "dial"
  THEN [Response |-> "nil", Duration |-> 0, Err |-> "QUIC dial failed", timed |-> FALSE]
  ELSE IF fail = "stream"
  THEN [Response |-> "nil", Duration |-> elapsed, Err |-> "failed to open QUIC stream", timed |-> TRUE]
  ELSE IF fail = "writeLen"
  THEN [Response |-> "nil", Duration |-> elapsed, Err |-> "failed to write length prefix", timed |-> TRUE]
  ELSE IF fail = "writeMsg"
  THEN [Response |-> "nil", Duration |-> elapsed, Err |-> "failed to write DNS message", timed |-> TRUE]
  ELSE IF fail = "closeSend"
  THEN [Response |-> "nil", Duration |-> elapsed, Err |-> "failed to close send side", timed |-> TRUE]
  ELSE IF fail = "readLen"
  THEN [Response |-> "nil", Duration |-> elapsed, Err |-> "failed to read response length", timed |-> TRUE]
  ELSE IF fail = "readBody"
  THEN [Response |-> "nil", Duration |-> elapsed, Err |-> "failed to read response", timed |-> TRUE]
  ELSE IF fail = "unpack"
  THEN [Response |-> "nil", Duration |-> elapsed, Err |-> "failed to unpack DNS response", timed |-> TRUE]
  ELSE [Response |-> "msg", Duration |-> elapsed, Err |-> "nil", timed |-> TRUE]

DoQQuery(r, name, fail, elapsed) ==
  IF fail = "pack"
  THEN [Response |-> "nil", Duration |-> 0, Err |-> "failed to pack DNS message", timed |-> FALSE]
  ELSE IF fail = "dial"
  THEN [Response |-> "nil", Duration |-> elapsed, Err |-> "QUIC dial failed", timed |-> TRUE]
  ELSE IF fail = "stream"
  THEN [Response |-> "nil", Duration |-> elapsed, Err |-> "failed to open QUIC stream", timed |-> TRUE]
  ELSE IF fail = "writeLen"
  THEN [Response |-> "nil", Duration |-> elapsed, Err |-> "failed to write length prefix", timed |-> TRUE]
  ELSE IF fail = "writeMsg"
  THEN [Response |-> "nil", Duration |-> elapsed, Err |-> "failed to write DNS message", timed |-> TRUE]
  ELSE IF fail = "closeSend"
  THEN [Response |-> "nil", Duration |-> elapsed, Err |-> "failed to close send side", timed |-> TRUE]
  ELSE IF fail = "readLen"
  THEN [Response |-> "nil", Duration |-> elapsed, Err |-> "failed to read response length", timed |-> TRUE]
  ELSE IF fail = "readBody"
  THEN [Response |-> "nil", Duration |-> elapsed, Err |-> "failed to read response", timed |-> TRUE]
  ELSE IF fail = "unpack"
  THEN [Response |-> "nil", Duration |-> elapsed, Err |-> "failed to unpack DNS response", timed |-> TRUE]
  ELSE [Response |-> "msg", Duration |-> elapsed, Err |-> "nil", timed |-> TRUE]

\* Resolver.Query, dispatched on the dynamic type.
Query(r, name, fail, elapsed) ==
  CASE r.variant = "do53" -> Do53Query(r, name, fail, elapsed)
    [] r.variant = "dot"  -> DoTQuery(r, name, fail, elapsed)
    [] r.variant = "doh"  -> DoHQuery(r, name, fail, elapsed)
    [] r.variant = "doh3" -> DoH3Query(r, name, fail, elapsed)
    [] r.variant = "doq"  -> DoQQuery(r, name, fail, elapsed)

\* The failures the environment can produce for one call.  A name that does
\* not pack fails there; an unparsable URL fails request construction; a
\* context already cancelled when Query is entered fails the first network
\* step; otherwise any step may fail or all may succeed.
FailPoints(r, name, ctxDone) ==
  CASE r.variant \in {"do53", "dot"} ->
         IF ~PackOK(name) \/ ctxDone THEN {"exchange"}
         ELSE {"exchange", "response", "none"}
                \cup (IF r.variant = "do53" /\ ~r.useTCP THEN {"truncated"} ELSE {})
    [] r.variant \in {"doh", "doh3"} ->
         IF ~PackOK(name) THEN {"pack"}
         ELSE IF ~URLParses(r.url) THEN {"request"}
         ELSE IF ctxDone THEN {"do"}
         ELSE {"do", "status", "read", "unpack", "none"}
    [] r.variant = "doq" ->
         IF ~PackOK(name) THEN {"pack"}
         ELSE IF ctxDone THEN {"dial"}
         ELSE {"dial", "stream", "writeLen", "writeMsg", "closeSend",
               "readLen", "readBody", "unpack", "none"}

\* DoQ, part_006 lines 151-152: the length prefix, high byte first.
EncodeLen(n) == <<(n \div 256) % 256, n % 256>>

\* Variant: the low byte taken first.
DecodeLenLittleEndian(b) == b[2] * 256 + b[1]

\* DoQ, part_006 line 183: int(buf[0])<<8 | int(buf[1]).
DecodeLen(b) == b[1] * 256 + b[2]

\* dns.Fqdn: the name with its final dot.
Fqdn(name) == name \o "."

\* The POST a DoH Query builds: the message ID set to 0, the Host header
\* overridden by r.host, both dns-message headers.
DoHRequest(r, name, qt, id) ==
  [method |-> "POST", url |-> r.url, host |-> r.host,
   contentType |-> "application/dns-message", accept |-> "application/dns-message",
   msgId |-> 0, qname |-> Fqdn(name), qtype |-> qt]

\* The POST a DoH3 Query builds: the message keeps the ID SetQuestion drew.
DoH3Request(r, name, qt, id) ==
  [method |-> "POST", url |-> r.url, host |-> r.host,
   contentType |-> "application/dns-message", accept |-> "application/dns-message",
   msgId |-> id, qname |-> Fqdn(name), qtype |-> qt]

\* The steps of a Query that follow an answered operation without waiting
\* for the peer.
LocalStepsAfter(r, stepName) ==
  CASE r.variant = "doq" /\ stepName = "writeMsg" -> <<"closeSend">>
    [] r.variant = "doq" /\ stepName = "readBody" -> <<"unpack">>
    [] r.variant \in {"doh", "doh3"} /\ stepName = "do" -> <<"status">>
    [] r.variant \in {"doh", "doh3"} /\ stepName = "read" -> <<"unpack">>
    [] OTHER -> <<>>

\* What the server's reply makes of the operation stepName: "continue" with
\* the next operation, "none" for a decoded response, or the step the Query
\* fails at.  respLength is the length DoQ decoded from the prefix.
ReplyOutcome(r, reply, stepName, isLast, respLength) ==
  CASE r.variant \in {"do53", "dot"} ->
         (IF reply.kind = "bad" THEN "response"
          ELSE IF reply.kind = "truncated" THEN "truncated" ELSE "none")
    [] r.variant \in {"doh", "doh3"} ->
         (IF stepName = "do"
          THEN (IF isLast /\ reply.kind = "status" THEN "status" ELSE "continue")
          ELSE (IF reply.kind = "garbled" THEN "unpack" ELSE "none"))
    [] r.variant = "doq" ->
         (IF stepName # "readBody" THEN "continue"
          ELSE IF reply.bodyLen < respLength THEN "readBody"
          ELSE IF reply.kind = "garbled" THEN "unpack" ELSE "none")

\* Variant: the QUIC connection without its idle timeouts.
BlockingStepsNoIdleTimeout(r) ==
  CASE r.variant \in {"do53", "dot"} ->
         <<[name |-> "exchange", deadline |-> TRUE, ctx |-> TRUE, idle |-> FALSE]>>
    [] r.variant \in {"doh", "doh3"} ->
         <<[name |-> "do", deadline |-> TRUE, ctx |-> TRUE, idle |-> FALSE],
           [name |-> "read", deadline |-> TRUE, ctx |-> TRUE, idle |-> FALSE]>>
    [] r.variant = "doq" ->
         <<[name |-> "dial", deadline |-> TRUE, ctx |-> TRUE, idle |-> FALSE],
           [name |-> "stream", deadline |-> TRUE, ctx |-> TRUE, idle |-> FALSE],
           [name |-> "writeLen", deadline |-> FALSE, ctx |-> FALSE, idle |-> FALSE],
           [name |-> "writeMsg", deadline |-> FALSE, ctx |-> FALSE, idle |-> FALSE],
           [name |-> "readLen", deadline |-> FALSE, ctx |-> FALSE, idle |-> FALSE],
           [name |-> "readBody", deadline |-> FALSE, ctx |-> FALSE, idle |-> FALSE]>>

\* The operations of a Query that wait for the peer, in the order of the
\* code, each with what can end the wait besides the peer: a deadline of
\* r.timeout (dns.Client.Timeout, http.Client.Timeout, queryCtx), the
\* cancellation of the context handed to Query, and the connection's idle
\* timeout of r.timeout, which fires when the peer sends nothing.
BlockingSteps(r) ==
  CASE r.variant \in {"do53", "dot"} ->
         <<[name |-> "exchange", deadline |-> TRUE, ctx |-> TRUE, idle |-> FALSE]>>
    [] r.variant \in {"doh", "doh3"} ->
         <<[name |-> "do", deadline |-> TRUE, ctx |-> TRUE, idle |-> FALSE],
           [name |-> "read", deadline |-> TRUE, ctx |-> TRUE, idle |-> FALSE]>>
    [] r.variant = "doq" ->
         <<[name |-> "dial", deadline |-> TRUE, ctx |-> TRUE, idle |-> TRUE],
           [name |-> "stream", deadline |-> TRUE, ctx |-> TRUE, idle |-> TRUE],
           [name |-> "writeLen", deadline |-> FALSE, ctx |-> FALSE, idle |-> TRUE],
           [name |-> "writeMsg", deadline |-> FALSE, ctx |-> FALSE, idle |-> TRUE],
           [name |-> "readLen", deadline |-> FALSE, ctx |-> FALSE, idle |-> TRUE],
           [name |-> "readBody", deadline |-> FALSE, ctx |-> FALSE, idle |-> TRUE]>>

\* What a Query fails with before it waits for anything, "none" if nothing.
PreludeFailure(r, name) ==
  IF ~PackOK(name) THEN (IF r.variant \in {"do53", "dot"} THEN "exchange" ELSE "pack")
  ELSE IF r.variant \in {"doh", "doh3"} /\ ~URLParses(r.url) THEN "request"
  ELSE "none"

\* The number of request/response exchanges a Query performs on the path
\* that ends at fail: none when the message cannot be packed or the request
\* cannot be built, one otherwise (each Query has one Exchange, one
\* httpClient.Do or one stream, outside any loop).
ExchangesOf(r, name, fail) ==
  IF ~PackOK(name) \/ fail \in {"pack", "request"} THEN 0 ELSE 1

\* The host:port (do53, dot, doq) or URL (doh, doh3) a Query sends to.
QueryTarget(r) ==
  IF r.variant \in {"doh", "doh3"} THEN r.url
  ELSE r.address \o ":" \o r.port

(***************************************************************************)
(* internal/prober.                                                        *)
(***************************************************************************)
serverKey(server) == server.Address \o ":" \o server.Port \o ":" \o server.Protocol

\* Variant: the configured value taken as it is.
EffectiveTimeoutNoDefault(c) == c.Timeout

\* New, lines 147-150: milliseconds, 2 s when zero.
EffectiveTimeout(c) == IF c.Timeout = 0 THEN 2000 ELSE c.Timeout

\* The reading of time.Since(start) explored: some time elapsed (the clock is
\* monotonic and the calls in between take time).
ElapsedChoices == {1}

\* generateRandomPrefix(5): the labels explored.
\* base32.StdEncoding: the alphabet of RFC 4648, by 5-bit value.
Base32Alphabet ==
  <<"A", "B", "C", "D", "E", "F", "G", "H", "I", "J", "K", "L", "M", "N", "O", "P",
    "Q", "R", "S", "T", "U", "V", "W", "X", "Y", "Z", "2", "3", "4", "5", "6", "7">>

HexAlphabet ==
  <<"0", "1", "2", "3", "4", "5", "6", "7", "8", "9", "a", "b", "c", "d", "e", "f">>

\* Bit j (0 = most significant bit of the first byte) of a byte string, 0
\* past its end.
Bit(bytes, j) ==
  IF (j \div 8) + 1 > Len(bytes) THEN 0
  ELSE (bytes[(j \div 8) + 1] \div (2 ^ (7 - (j % 8)))) % 2

\* The k-th (from 0) group of five bits.
Quintet(bytes, k) ==
  16 * Bit(bytes, 5 * k) + 8 * Bit(bytes, 5 * k + 1) + 4 * Bit(bytes, 5 * k + 2)
    + 2 * Bit(bytes, 5 * k + 3) + Bit(bytes, 5 * k + 4)

\* EncodeToString without padding: one character per started group of five
\* bits.  Strings are written as sequences of one-character strings.
Base32Encode(bytes) ==
  [k \in 1..((8 * Len(bytes) + 4) \div 5) |-> Base32Alphabet[Quintet(bytes, k - 1) + 1]]

HexEncode(bytes) ==
  [k \in 1..(2 * Len(bytes)) |->
     HexAlphabet[(IF k % 2 = 1 THEN bytes[(k + 1) \div 2] \div 16
                               ELSE bytes[(k + 1) \div 2] % 16) + 1]]

\* The characters joined into one string.
RECURSIVE Join(_)
Join(chars) == IF chars = <<>> THEN "" ELSE Head(chars) \o Join(Tail(chars))

\* The outcome of rand.Read(b): an error, or b filled.
NoRandom == [err |-> FALSE, bytes |-> <<>>]

\* Variant: the bytes rendered with hex.EncodeToString.
generateRandomPrefixHex(length, rnd) ==
  IF rnd.err THEN <<"r", "a", "n", "d", "o", "m">>
  ELSE HexEncode(SubSeq(rnd.bytes, 1, length))

generateRandomPrefix(length, rnd) ==
  IF rnd.err THEN <<"r", "a", "n", "d", "o", "m">>
  ELSE Base32Encode(SubSeq(rnd.bytes, 1, length))

\* Run, line 191: generateRandomPrefix(5).
PrefixLength == 5

\* dns.TypeA, the qtype of line 194.
TypeA == 1

\* Byte values the random source is taken to deliver.
ByteChoices == {0, 97, 255}

RandOutcomes ==
  {[err |-> FALSE, bytes |-> b] : b \in [1..PrefixLength -> ByteChoices]}
    \cup {[err |-> TRUE, bytes |-> [i \in 1..PrefixLength |-> 0]]}

\* The outcomes of the random source taken during a probe cycle.
RunRandOutcomes ==
  {[err |-> FALSE, bytes |-> <<97, 98, 99, 100, 101>>],
   [err |-> TRUE, bytes |-> [i \in 1..PrefixLength |-> 0]]}


\* metrics.RecordQuery as the sink sees it: one outcome appended.
\* time.Second, in the nanoseconds a time.Duration counts.
NanosPerSecond == 1000000000

\* Duration.Seconds(): the duration as a number of seconds, written as the
\* fraction <<numerator, denominator>>.
Seconds(d) == <<d, NanosPerSecond>>

\* Run, line 210: time.Sleep(500 * time.Millisecond).
InterProbeDelayMs == 500

NoMetrics == [count |-> 0, sum |-> 0, success |-> 0, failures |-> 0]

\* Variant: the failure counter counts every call.
MetricsRecordCountsFailureAlways(mv, domain, server, protocol, duration, success) ==
  LET l   == <<domain, server, protocol>>
      old == IF l \in DOMAIN mv THEN mv[l] ELSE NoMetrics
  IN  [k \in DOMAIN mv \cup {l} |->
         IF k = l
         THEN [count    |-> old.count + 1,
               sum      |-> old.sum + duration,
               success  |-> old.success + (IF success THEN 1 ELSE 0),
               failures |-> old.failures + 1]
         ELSE mv[k]]

\* metrics.RecordQuery on the three metric vectors, by label set: Observe on
\* the duration histogram (its count and sum), Inc on the success counter or
\* on the failure counter.
MetricsRecord(mv, domain, server, protocol, duration, success) ==
  LET l   == <<domain, server, protocol>>
      old == IF l \in DOMAIN mv THEN mv[l] ELSE NoMetrics
  IN  [k \in DOMAIN mv \cup {l} |->
         IF k = l
         THEN [count    |-> old.count + 1,
               sum      |-> old.sum + duration,
               success  |-> old.success + (IF success THEN 1 ELSE 0),
               failures |-> old.failures + (IF success THEN 0 ELSE 1)]
         ELSE mv[k]]

RecordQuery(sink, domain, server, protocol, duration, success) ==
  Append(sink, [domain |-> domain, server |-> server, protocol |-> protocol,
                duration |-> duration, success |-> success])

\* Variant: the repetition loop bound off by one (i <= domain.Probes).
RECURSIVE AdvanceOffByOne(_, _, _, _)
AdvanceOffByOne(c, d, s, i) ==
  IF d > Len(c.Domains) THEN <<0, 0, 0>>
  ELSE IF s > Len(c.DNSServers) THEN AdvanceOffByOne(c, d + 1, 1, 0)
  ELSE IF i > c.Domains[d].Probes THEN AdvanceOffByOne(c, d, s + 1, 0)
  ELSE <<d, s, i>>

\* The loop heads of Run (lines 176, 177, 184) evaluated from counters
\* (d, s, i): the next (domain, server, repetition) whose body runs, or
\* <<0, 0, 0>> when the loops are exhausted.  d, s are 1-based, i is Go's i.
RECURSIVE Advance(_, _, _, _)
Advance(c, d, s, i) ==
  IF d > Len(c.Domains) THEN <<0, 0, 0>>
  ELSE IF s > Len(c.DNSServers) THEN Advance(c, d + 1, 1, 0)
  ELSE IF i >= c.Domains[d].Probes THEN Advance(c, d, s + 1, 0)
  ELSE <<d, s, i>>

(***************************************************************************)
(* The configurations explored.                                            *)
(***************************************************************************)
TLSChoices ==
  {NoTLS,
   [present |-> TRUE, ServerName |-> "dns.example", InsecureSkipVerify |-> FALSE],
   [present |-> TRUE, ServerName |-> "", InsecureSkipVerify |-> TRUE]}

\* One server of every protocol tag (recognised, empty, unknown), with and
\* without a port, probed once.
VariantServers ==
  [Address : {"192.0.2.1"}, Port : {"", "5353", "x"},
   Protocol : ValidProtocols \cup {"", "invalid"}, TLS : TLSChoices]

VariantConfigs ==
  {[Domains |-> <<[Name |-> n, Probes |-> 1]>>, DNSServers |-> <<s>>, Timeout |-> t] :
     n \in {"example.com", "bad..example"}, s \in VariantServers, t \in {0, 100}}

ServerPool ==
  <<[Address |-> "192.0.2.1", Port |-> "53", Protocol |-> ProtocolDo53UDP, TLS |-> NoTLS],
    [Address |-> "198.51.100.7", Port |-> "443", Protocol |-> ProtocolDoH, TLS |-> NoTLS],
    [Address |-> "192.0.2.1", Port |-> "853", Protocol |-> ProtocolDoT, TLS |-> NoTLS]>>

DomainNames == <<"example.com", "example.org", "example.net">>

RECURSIVE SumProbes(_)
SumProbes(ds) == IF ds = <<>> THEN 0 ELSE Head(ds).Probes + SumProbes(Tail(ds))

\* Domain x server x probes matrices of at most MaxMatrix probes.
MatrixConfigs ==
  UNION {
    {[Domains |-> [i \in 1..n |-> [Name |-> DomainNames[i], Probes |-> f[i]]],
      DNSServers |-> SubSeq(ServerPool, 1, m), Timeout |-> 2000] :
        f \in {g \in [1..n -> 0..MaxProbes] :
                 m * SumProbes([i \in 1..n |-> [Probes |-> g[i]]]) <= MaxMatrix}}
    : n \in 1..MaxDomains, m \in 1..MaxServers}

\* Server lists whose keys meet: the first two entries differ in address and
\* port and have the same "%s:%s:%s" rendering; the third has an unknown tag;
\* the fourth equals none of the others.
ListPool ==
  {[Address |-> "::1", Port |-> "53", Protocol |-> ProtocolDo53UDP, TLS |-> NoTLS],
   [Address |-> ":", Port |-> "1:53", Protocol |-> ProtocolDo53UDP, TLS |-> NoTLS],
   [Address |-> "192.0.2.1", Port |-> "53", Protocol |-> "invalid", TLS |-> NoTLS],
   [Address |-> "192.0.2.1", Port |-> "443", Protocol |-> ProtocolDoH3, TLS |-> NoTLS]}

ListConfigs ==
  {[Domains |-> <<[Name |-> "example.com", Probes |-> 1]>>, DNSServers |-> <<a, b>>,
    Timeout |-> 2000] : a, b \in ListPool}

RawConfigs == VariantConfigs \cup MatrixConfigs \cup ListConfigs

\* The resolvers the factory builds for the single servers above.
QueryResolvers ==
  {NewResolver(s, 2000).r : s \in {t \in VariantServers : t.Protocol \in ValidProtocols}}

\* The reply of a server that answers every operation of a Query: its kind
\* and, for DoQ, the two length bytes and the number of body bytes it sends
\* before it ends the stream.
NoReply == [kind |-> "good", lenBytes |-> <<0, 0>>, bodyLen |-> 0]

ReplyChoices(r) ==
  CASE r.variant \in {"do53", "dot"} ->
         {[NoReply EXCEPT !.kind = k] :
            k \in {"good", "bad"} \cup
                  (IF r.variant = "do53" /\ ~r.useTCP THEN {"truncated"} ELSE {})}
    [] r.variant \in {"doh", "doh3"} ->
         {[NoReply EXCEPT !.kind = k] : k \in {"good", "status", "garbled"}}
    [] r.variant = "doq" ->
         {[kind |-> k, lenBytes |-> b, bodyLen |-> n] :
            k \in {"good", "garbled"}, b \in {<<0, 40>>, <<1, 4>>}, n \in {4, 40, 260}}

\* Lengths of the packed query explored (12 + name + 4 bytes; a name has at
\* most 255 bytes).
WireLens == {29, 273}

\* The message IDs dns.Id() is taken to draw in SetQuestion.
MsgIds == {0, 4660}

NoRequest ==
  [method |-> "", url |-> "", host |-> "", contentType |-> "", accept |-> "",
   msgId |-> 0, qname |-> "", qtype |-> 0]

NoWait ==
  [pc |-> "none", r |-> NilResolver, name |-> "", answersUntil |-> 0, step |-> 0,
   endedBy |-> "none", result |-> [Response |-> "nil", Duration |-> 0, Err |-> "nil", timed |-> FALSE],
   reply |-> NoReply, wireLen |-> 0, msgId |-> 0, trace |-> <<>>,
   sentPrefix |-> <<>>, sentMsg |-> 0, fin |-> FALSE, respLength |-> 0, bodyRead |-> 0,
   request |-> NoRequest]

NilConfig == [Domains |-> <<>>, DNSServers |-> <<>>, Timeout |-> 0]

NoServer == [Address |-> "", Port |-> "", Protocol |-> "", TLS |-> NoTLS]

NoResult == [Response |-> "nil", Duration |-> 0, Err |-> "nil", timed |-> FALSE]

(***************************************************************************)
(* State.                                                                  *)
(***************************************************************************)
\* run() before it is entered: no main thread position, no probing goroutine.
NoMain == [mainPc |-> "none", gPc |-> "none", cycles |-> 0, active |-> 0]


VARIABLES
  raw,        \* the configuration as written (YAML content or Go literal)
  origin,     \* "none", "load" (config.Load) or "direct" (literal handed to New)
  cfg,        \* the *config.Config handed to prober.New
  phase,      \* "start", "loadFailed", "config", "newFailed", "ready"
  newIdx,     \* New: index of the server the loop is at
  resolvers,  \* New / Prober.resolvers: key -> Resolver
  built,      \* what the last NewResolver call was given and returned
  runPc,      \* Run: "idle", "check", "query", "inflight", "sleep", "done"
  pos,        \* Run: <<domain index, server index, i>>
  hostname,   \* Run: the name of the Query in flight
  issued,     \* number of Query calls made
  reported,   \* the outcomes handed to metrics.RecordQuery, in order
  probes,     \* for each reported outcome, the <<d, s, repetition>> it is for
  lastResult, \* the QueryResult of the last Query that returned
  cancelled,  \* ctx.Done() is closed
  cancelAt,   \* where Run was, and how many queries were issued, at cancel()
  closed,     \* key -> number of Close calls on that resolver
  closeCalls, \* number of Prober.Close calls
  rnd,        \* Run: what rand.Read delivered for the probe at hand
  prefix,     \* Run: the label generateRandomPrefix returned, by character
  qtype,      \* Run: the query type handed to Query (0 before any)
  queried,    \* keys of the resolvers whose Query has been entered
  closeWarnings, \* keys whose Close error the last Prober.Close logged
  wait,       \* one Query followed through its blocking operations
  lastFail,   \* Run: where the Query that returned last failed ("none": nowhere)
  exchanges,  \* Run: request/response exchanges that Query performed
  delayMs,    \* Run: milliseconds spent in inter-probe delays in this cycle
  metrics,    \* label set -> histogram count and sum, success and failure counters
  main        \* run(): where the main thread and the probing goroutine are

vars == <<raw, origin, cfg, phase, newIdx, resolvers, built, runPc, pos, hostname,
          issued, reported, probes, lastResult, cancelled, cancelAt, closed, closeCalls,
          rnd, prefix, qtype, queried, closeWarnings, wait,
          lastFail, exchanges, delayMs, metrics, main>>

configVars == <<raw, origin, cfg, phase, newIdx, resolvers, built>>
runVars    == <<runPc, pos, hostname, issued, reported, probes, lastResult>>
nameVars   == <<rnd, prefix, qtype>>
closeVars  == <<queried, closeWarnings>>
probeVars  == <<lastFail, exchanges, delayMs, metrics>>

Init ==
  /\ raw \in RawConfigs
  /\ origin = "none"
  /\ cfg = NilConfig
  /\ phase = "start"
  /\ newIdx = 1
  /\ resolvers = <<>>
  /\ built = [called |-> FALSE, idx |-> 0, server |-> NoServer, r |-> NilResolver, err |-> "nil"]
  /\ runPc = "idle"
  /\ pos = <<0, 0, 0>>
  /\ hostname = ""
  /\ issued = 0
  /\ reported = <<>>
  /\ probes = <<>>
  /\ lastResult = NoResult
  /\ cancelled = FALSE
  /\ cancelAt = [pc |-> "none", issued |-> 0]
  /\ closed = <<>>
  /\ closeCalls = 0
  /\ rnd = NoRandom
  /\ prefix = <<>>
  /\ qtype = 0
  /\ queried = {}
  /\ closeWarnings = {}
  /\ wait = NoWait
  /\ lastFail = "none"
  /\ exchanges = 0
  /\ delayMs = 0
  /\ metrics = <<>>
  /\ main = NoMain

(***************************************************************************)
(* Obtaining the configuration.                                            *)
(***************************************************************************)
\* config.Load: applyDefaults, then validate; nil config on error.
Load ==
  /\ phase = "start"
  /\ LET res == LoadConfig(raw)
     IN  /\ origin' = "load"
         /\ IF res.err = "nil"
            THEN cfg' = res.config /\ phase' = "config"
            ELSE cfg' = NilConfig /\ phase' = "loadFailed"
  /\ UNCHANGED <<raw, newIdx, resolvers, built, cancelled, cancelAt, closed, closeCalls>>
  /\ UNCHANGED runVars
  /\ UNCHANGED nameVars
  /\ UNCHANGED closeVars
  /\ UNCHANGED wait
  /\ UNCHANGED main
  /\ UNCHANGED probeVars

\* A Config literal handed to prober.New as it is (as the package's tests do).
Direct ==
  /\ phase = "start"
  /\ origin' = "direct"
  /\ cfg' = raw
  /\ phase' = "config"
  /\ UNCHANGED <<raw, newIdx, resolvers, built, cancelled, cancelAt, closed, closeCalls>>
  /\ UNCHANGED runVars
  /\ UNCHANGED nameVars
  /\ UNCHANGED closeVars
  /\ UNCHANGED wait
  /\ UNCHANGED main
  /\ UNCHANGED probeVars

(***************************************************************************)
(* prober.New: one iteration of the loop over cfg.DNSServers.              *)
(***************************************************************************)
\* Variant: a server whose resolver cannot be built is skipped.
NewStepSkipsInvalid ==
  /\ phase = "config"
  /\ newIdx <= Len(cfg.DNSServers)
  /\ LET server == cfg.DNSServers[newIdx]
         key    == serverKey(server)
         res    == NewResolver(server, EffectiveTimeout(cfg))
     IN  /\ built' = [called |-> TRUE, idx |-> newIdx, server |-> server, r |-> res.r, err |-> res.err]
         /\ IF res.err # "nil"
            THEN UNCHANGED <<resolvers, closed>>
            ELSE /\ resolvers' = [k \in DOMAIN resolvers \cup {key} |->
                                    IF k = key THEN res.r ELSE resolvers[k]]
                 /\ closed' = [k \in DOMAIN resolvers \cup {key} |->
                                    IF k \in DOMAIN closed THEN closed[k] ELSE 0]
         /\ newIdx' = newIdx + 1
         /\ UNCHANGED phase
  /\ UNCHANGED <<raw, origin, cfg, cancelled, cancelAt, closeCalls>>
  /\ UNCHANGED runVars
  /\ UNCHANGED nameVars
  /\ UNCHANGED closeVars
  /\ UNCHANGED wait
  /\ UNCHANGED main
  /\ UNCHANGED probeVars

NewStep ==
  /\ phase = "config"
  /\ newIdx <= Len(cfg.DNSServers)
  /\ LET server == cfg.DNSServers[newIdx]
         key    == serverKey(server)
         res    == NewResolver(server, EffectiveTimeout(cfg))
     IN  /\ built' = [called |-> TRUE, idx |-> newIdx, server |-> server, r |-> res.r, err |-> res.err]
         /\ IF res.err # "nil"
            THEN /\ phase' = "newFailed"
                 /\ UNCHANGED <<resolvers, closed, newIdx>>
            ELSE /\ resolvers' = [k \in DOMAIN resolvers \cup {key} |->
                                    IF k = key THEN res.r ELSE resolvers[k]]
                 /\ closed' = [k \in DOMAIN resolvers \cup {key} |->
                                    IF k \in DOMAIN closed THEN closed[k] ELSE 0]
                 /\ newIdx' = newIdx + 1
                 /\ UNCHANGED phase
  /\ UNCHANGED <<raw, origin, cfg, cancelled, cancelAt, closeCalls>>
  /\ UNCHANGED runVars
  /\ UNCHANGED nameVars
  /\ UNCHANGED closeVars
  /\ UNCHANGED wait
  /\ UNCHANGED main
  /\ UNCHANGED probeVars

\* New, lines 162-166: the loop is over, the Prober is returned.
NewReturn ==
  /\ phase = "config"
  /\ newIdx > Len(cfg.DNSServers)
  /\ phase' = "ready"
  /\ UNCHANGED <<raw, origin, cfg, newIdx, resolvers, built, cancelled, cancelAt,
                 closed, closeCalls>>
  /\ UNCHANGED runVars
  /\ UNCHANGED nameVars
  /\ UNCHANGED closeVars
  /\ UNCHANGED wait
  /\ UNCHANGED main
  /\ UNCHANGED probeVars


(***************************************************************************)
(* Prober.Run: one probe cycle.                                            *)
(***************************************************************************)
Done == <<0, 0, 0>>

\* Run is called; the loops are entered (lines 176-184).  No caller runs a
\* cycle on a closed Prober, except that the probing goroutine of run() may
\* still enter Run after shutdown has cancelled the context and closed it.
RunStart ==
  /\ phase = "ready"
  /\ runPc = "idle"
  /\ closeCalls = 0 \/ cancelled
  /\ pos' = Advance(cfg, 1, 1, 0)
  /\ runPc' = IF pos' = Done THEN "done" ELSE "check"
  /\ UNCHANGED <<hostname, issued, reported, probes, lastResult>>
  /\ UNCHANGED <<cancelled, cancelAt, closed, closeCalls>>
  /\ UNCHANGED configVars
  /\ UNCHANGED nameVars
  /\ UNCHANGED closeVars
  /\ UNCHANGED wait
  /\ UNCHANGED main
  /\ delayMs' = 0
  /\ UNCHANGED <<lastFail, exchanges, metrics>>

\* Variant: the probe loop without its select on ctx.Done().
RunCheckIgnoresCancel ==
  /\ runPc = "check"
  /\ runPc' = "query"
  /\ UNCHANGED <<pos, hostname, issued, reported, probes, lastResult>>
  /\ UNCHANGED <<cancelled, cancelAt, closed, closeCalls>>
  /\ UNCHANGED configVars
  /\ UNCHANGED nameVars
  /\ UNCHANGED closeVars
  /\ UNCHANGED wait
  /\ UNCHANGED main
  /\ UNCHANGED probeVars

\* Lines 185-189: the select on ctx.Done() before the probe.
RunCheck ==
  /\ runPc = "check"
  /\ runPc' = IF cancelled THEN "done" ELSE "query"
  /\ UNCHANGED <<pos, hostname, issued, reported, probes, lastResult>>
  /\ UNCHANGED <<cancelled, cancelAt, closed, closeCalls>>
  /\ UNCHANGED configVars
  /\ UNCHANGED nameVars
  /\ UNCHANGED closeVars
  /\ UNCHANGED wait
  /\ UNCHANGED main
  /\ UNCHANGED probeVars

\* Lines 191-194: the name is built and r.Query is entered.
RunQuery ==
  /\ runPc = "query"
  /\ \E o \in RunRandOutcomes :
        /\ rnd' = o
        /\ prefix' = generateRandomPrefix(PrefixLength, o)
        /\ hostname' = Join(prefix') \o "." \o cfg.Domains[pos[1]].Name
  /\ qtype' = TypeA
  /\ queried' = queried \cup {serverKey(cfg.DNSServers[pos[2]])}
  /\ UNCHANGED closeWarnings
  /\ issued' = issued + 1
  /\ runPc' = "inflight"
  /\ UNCHANGED <<pos, reported, probes, lastResult>>
  /\ UNCHANGED <<cancelled, cancelAt, closed, closeCalls>>
  /\ UNCHANGED configVars
  /\ UNCHANGED wait
  /\ UNCHANGED main
  /\ UNCHANGED probeVars

\* Variant: a result that arrives after cancellation is dropped and Run returns.
ProbeFinishDropsCancelled ==
  /\ runPc = "inflight"
  /\ LET domain == cfg.Domains[pos[1]]
         server == cfg.DNSServers[pos[2]]
         r      == resolvers[serverKey(server)]
         serverAddr == server.Address \o ":" \o server.Port
         ctxDoneOnEntry == cancelled /\ cancelAt.pc = "query"
     IN  \E fail \in FailPoints(r, domain.Name, ctxDoneOnEntry), elapsed \in ElapsedChoices :
            LET result == Query(r, domain.Name, fail, elapsed)
            IN  /\ lastResult' = result
                /\ lastFail' = fail
                /\ exchanges' = ExchangesOf(r, domain.Name, fail)
                /\ metrics' = MetricsRecord(metrics, domain.Name, serverAddr, Protocol(r),
                                            result.Duration, result.Err = "nil")
                /\ UNCHANGED delayMs
                /\ IF cancelled
                   THEN UNCHANGED <<reported, probes>> /\ runPc' = "done"
                   ELSE /\ reported' = RecordQuery(reported, domain.Name, serverAddr,
                                           Protocol(r), Seconds(result.Duration), result.Err = "nil")
                        /\ probes' = Append(probes, <<pos[1], pos[2], pos[3] + 1>>)
                        /\ runPc' = "sleep"
  /\ UNCHANGED <<pos, hostname, issued>>
  /\ UNCHANGED <<cancelled, cancelAt, closed, closeCalls>>
  /\ UNCHANGED configVars
  /\ UNCHANGED nameVars
  /\ UNCHANGED closeVars
  /\ UNCHANGED wait
  /\ UNCHANGED main

\* Variant: a failed Query makes Run return after recording it.
ProbeFinishHaltsOnError ==
  /\ runPc = "inflight"
  /\ LET domain == cfg.Domains[pos[1]]
         server == cfg.DNSServers[pos[2]]
         r      == resolvers[serverKey(server)]
         serverAddr == server.Address \o ":" \o server.Port
         ctxDoneOnEntry == cancelled /\ cancelAt.pc = "query"
     IN  \E fail \in FailPoints(r, domain.Name, ctxDoneOnEntry), elapsed \in ElapsedChoices :
            LET result == Query(r, domain.Name, fail, elapsed)
            IN  /\ lastResult' = result
                /\ lastFail' = fail
                /\ exchanges' = ExchangesOf(r, domain.Name, fail)
                /\ metrics' = MetricsRecord(metrics, domain.Name, serverAddr, Protocol(r),
                                            result.Duration, result.Err = "nil")
                /\ UNCHANGED delayMs
                /\ reported' = RecordQuery(reported, domain.Name, serverAddr, Protocol(r),
                                           Seconds(result.Duration), result.Err = "nil")
                /\ probes' = Append(probes, <<pos[1], pos[2], pos[3] + 1>>)
                /\ runPc' = IF result.Err = "nil" THEN "sleep" ELSE "done"
  /\ UNCHANGED <<pos, hostname, issued>>
  /\ UNCHANGED <<cancelled, cancelAt, closed, closeCalls>>
  /\ UNCHANGED configVars
  /\ UNCHANGED nameVars
  /\ UNCHANGED closeVars
  /\ UNCHANGED wait
  /\ UNCHANGED main

\* Variant: the outcome is labelled with the name that was queried.
ProbeFinishReportsHostname ==
  /\ runPc = "inflight"
  /\ LET domain == cfg.Domains[pos[1]]
         server == cfg.DNSServers[pos[2]]
         r      == resolvers[serverKey(server)]
         serverAddr == server.Address \o ":" \o server.Port
         ctxDoneOnEntry == cancelled /\ cancelAt.pc = "query"
     IN  \E fail \in FailPoints(r, domain.Name, ctxDoneOnEntry), elapsed \in ElapsedChoices :
            LET result == Query(r, domain.Name, fail, elapsed)
            IN  /\ lastResult' = result
                /\ lastFail' = fail
                /\ exchanges' = ExchangesOf(r, domain.Name, fail)
                /\ metrics' = MetricsRecord(metrics, domain.Name, serverAddr, Protocol(r),
                                            result.Duration, result.Err = "nil")
                /\ UNCHANGED delayMs
                /\ reported' = RecordQuery(reported, hostname, serverAddr, Protocol(r),
                                           Seconds(result.Duration), result.Err = "nil")
                /\ probes' = Append(probes, <<pos[1], pos[2], pos[3] + 1>>)
  /\ runPc' = "sleep"
  /\ UNCHANGED <<pos, hostname, issued>>
  /\ UNCHANGED <<cancelled, cancelAt, closed, closeCalls>>
  /\ UNCHANGED configVars
  /\ UNCHANGED nameVars
  /\ UNCHANGED closeVars
  /\ UNCHANGED wait
  /\ UNCHANGED main

\* Lines 194-208: r.Query returns and its outcome goes to the metrics sink.
ProbeFinish ==
  /\ runPc = "inflight"
  /\ LET domain == cfg.Domains[pos[1]]
         server == cfg.DNSServers[pos[2]]
         r      == resolvers[serverKey(server)]
         serverAddr == server.Address \o ":" \o server.Port
         ctxDoneOnEntry == cancelled /\ cancelAt.pc = "query"
     IN  \E fail \in FailPoints(r, domain.Name, ctxDoneOnEntry), elapsed \in ElapsedChoices :
            LET result == Query(r, domain.Name, fail, elapsed)
            IN  /\ lastResult' = result
                /\ lastFail' = fail
                /\ exchanges' = ExchangesOf(r, domain.Name, fail)
                /\ metrics' = MetricsRecord(metrics, domain.Name, serverAddr, Protocol(r),
                                            result.Duration, result.Err = "nil")
                /\ UNCHANGED delayMs
                /\ reported' = RecordQuery(reported, domain.Name, serverAddr, Protocol(r),
                                           Seconds(result.Duration), result.Err = "nil")
                /\ probes' = Append(probes, <<pos[1], pos[2], pos[3] + 1>>)
  /\ runPc' = "sleep"
  /\ UNCHANGED <<pos, hostname, issued>>
  /\ UNCHANGED <<cancelled, cancelAt, closed, closeCalls>>
  /\ UNCHANGED configVars
  /\ UNCHANGED nameVars
  /\ UNCHANGED closeVars
  /\ UNCHANGED wait
  /\ UNCHANGED main

\* Variant: a further delay when the next probe is for another server or
\* another domain.
RunSleepPausesAtBoundary ==
  /\ runPc = "sleep"
  /\ pos' = Advance(cfg, pos[1], pos[2], pos[3] + 1)
  /\ runPc' = IF pos' = Done THEN "done" ELSE "check"
  /\ hostname' = ""
  /\ lastResult' = NoResult
  /\ rnd' = NoRandom
  /\ prefix' = <<>>
  /\ qtype' = 0
  /\ lastFail' = "none"
  /\ exchanges' = 0
  /\ delayMs' = delayMs + InterProbeDelayMs
                  + (IF pos' # Done /\ <<pos'[1], pos'[2]>> # <<pos[1], pos[2]>>
                     THEN InterProbeDelayMs ELSE 0)
  /\ UNCHANGED metrics
  /\ UNCHANGED <<issued, reported, probes>>
  /\ UNCHANGED <<cancelled, cancelAt, closed, closeCalls>>
  /\ UNCHANGED configVars
  /\ UNCHANGED closeVars
  /\ UNCHANGED wait
  /\ UNCHANGED main

\* Line 210 and the loop increments: the 500 ms sleep ends, the iteration's
\* locals (hostname, result) go out of scope, i++.
RunSleep ==
  /\ runPc = "sleep"
  /\ pos' = Advance(cfg, pos[1], pos[2], pos[3] + 1)
  /\ runPc' = IF pos' = Done THEN "done" ELSE "check"
  /\ hostname' = ""
  /\ lastResult' = NoResult
  /\ rnd' = NoRandom
  /\ prefix' = <<>>
  /\ qtype' = 0
  /\ lastFail' = "none"
  /\ exchanges' = 0
  /\ delayMs' = delayMs + InterProbeDelayMs
  /\ UNCHANGED metrics
  /\ UNCHANGED <<issued, reported, probes>>
  /\ UNCHANGED <<cancelled, cancelAt, closed, closeCalls>>
  /\ UNCHANGED configVars
  /\ UNCHANGED closeVars
  /\ UNCHANGED wait
  /\ UNCHANGED main

(***************************************************************************)
(* The caller of Run: cancel() and Prober.Close.                           *)
(***************************************************************************)
\* cancel() of the context handed to Run, at any moment.
Cancel ==
  /\ phase = "ready"
  /\ ~cancelled
  /\ cancelled' = TRUE
  /\ cancelAt' = [pc |-> runPc, issued |-> issued]
  /\ UNCHANGED <<closed, closeCalls>>
  /\ UNCHANGED configVars
  /\ UNCHANGED runVars
  /\ UNCHANGED nameVars
  /\ UNCHANGED closeVars
  /\ UNCHANGED wait
  /\ UNCHANGED main
  /\ UNCHANGED probeVars

\* Variant: the loop over the resolvers ends at the first Close error.
CloseStopsAtError ==
  /\ phase = "ready"
  /\ runPc \in {"idle", "done"} \/ (cancelled /\ closeCalls = 0)
  /\ closeCalls < MaxCloses
  /\ closeCalls' = closeCalls + 1
  /\ \E ret \in [DOMAIN resolvers -> {"nil", "close error"}] :
        /\ \A k \in DOMAIN resolvers : ret[k] \in ResolverClose(resolvers[k], k \in queried)
        /\ LET failed == {k \in DOMAIN resolvers : ret[k] # "nil"}
           IN  IF failed = {}
               THEN /\ closeWarnings' = {}
                    /\ closed' = [k \in DOMAIN resolvers |-> closed[k] + 1]
               ELSE \E f \in failed :
                      /\ closeWarnings' = {f}
                      /\ closed' = [k \in DOMAIN resolvers |->
                                      IF k = f THEN closed[k] + 1 ELSE closed[k]]
  /\ UNCHANGED <<cancelled, cancelAt, queried>>
  /\ UNCHANGED configVars
  /\ UNCHANGED runVars
  /\ UNCHANGED nameVars
  /\ UNCHANGED wait
  /\ UNCHANGED main
  /\ UNCHANGED probeVars

\* Prober.Close: Close on every held resolver.  The tests close a Prober they
\* are done with; run() closes it once on return, after cancel(), without
\* waiting for the probing goroutine.  A repeated Close comes from a caller
\* that is done with the Prober.
Close ==
  /\ phase = "ready"
  /\ runPc \in {"idle", "done"} \/ (cancelled /\ closeCalls = 0)
  /\ closeCalls < MaxCloses
  /\ closeCalls' = closeCalls + 1
  /\ \E ret \in [DOMAIN resolvers -> {"nil", "close error"}] :
        /\ \A k \in DOMAIN resolvers : ret[k] \in ResolverClose(resolvers[k], k \in queried)
        /\ closeWarnings' = {k \in DOMAIN resolvers : ret[k] # "nil"}
  /\ closed' = [k \in DOMAIN resolvers |-> closed[k] + 1]
  /\ UNCHANGED <<cancelled, cancelAt, queried>>
  /\ UNCHANGED configVars
  /\ UNCHANGED runVars
  /\ UNCHANGED nameVars
  /\ UNCHANGED wait
  /\ UNCHANGED main
  /\ UNCHANGED probeVars

(***************************************************************************)
(* generateRandomPrefix on its own, over the outcomes of the random source. *)
(***************************************************************************)
InitPrefix ==
  /\ raw = CHOOSE c \in MatrixConfigs : TRUE
  /\ origin = "none"
  /\ cfg = NilConfig
  /\ phase = "start"
  /\ newIdx = 1
  /\ resolvers = <<>>
  /\ built = [called |-> FALSE, idx |-> 0, server |-> NoServer, r |-> NilResolver, err |-> "nil"]
  /\ runPc = "idle"
  /\ pos = <<0, 0, 0>>
  /\ hostname = ""
  /\ issued = 0
  /\ reported = <<>>
  /\ probes = <<>>
  /\ lastResult = NoResult
  /\ cancelled = FALSE
  /\ cancelAt = [pc |-> "none", issued |-> 0]
  /\ closed = <<>>
  /\ closeCalls = 0
  /\ rnd \in RandOutcomes
  /\ prefix = <<>>
  /\ qtype = 0
  /\ queried = {}
  /\ closeWarnings = {}
  /\ wait = NoWait
  /\ lastFail = "none"
  /\ exchanges = 0
  /\ delayMs = 0
  /\ metrics = <<>>
  /\ main = NoMain

\* One call generateRandomPrefix(5).
GeneratePrefix ==
  /\ prefix = <<>>
  /\ prefix' = generateRandomPrefix(PrefixLength, rnd)
  /\ UNCHANGED <<rnd, qtype>>
  /\ UNCHANGED <<cancelled, cancelAt, closed, closeCalls>>
  /\ UNCHANGED configVars
  /\ UNCHANGED runVars
  /\ UNCHANGED closeVars
  /\ UNCHANGED wait
  /\ UNCHANGED main
  /\ UNCHANGED probeVars

SpecPrefix == InitPrefix /\ [][GeneratePrefix]_vars

(***************************************************************************)
(* One Resolver.Query followed through the operations that wait for the    *)
(* server.  The server answers the first answersUntil of them and nothing  *)
(* after that.                                                             *)
(***************************************************************************)
InitQuery ==
  /\ raw = CHOOSE c \in MatrixConfigs : TRUE
  /\ origin = "none"
  /\ cfg = NilConfig
  /\ phase = "start"
  /\ newIdx = 1
  /\ resolvers = <<>>
  /\ built = [called |-> FALSE, idx |-> 0, server |-> NoServer, r |-> NilResolver, err |-> "nil"]
  /\ runPc = "idle"
  /\ pos = <<0, 0, 0>>
  /\ hostname = ""
  /\ issued = 0
  /\ reported = <<>>
  /\ probes = <<>>
  /\ lastResult = NoResult
  /\ cancelled = FALSE
  /\ cancelAt = [pc |-> "none", issued |-> 0]
  /\ closed = <<>>
  /\ closeCalls = 0
  /\ rnd = NoRandom
  /\ prefix = <<>>
  /\ qtype = 0
  /\ queried = {}
  /\ closeWarnings = {}
  /\ lastFail = "none"
  /\ exchanges = 0
  /\ delayMs = 0
  /\ metrics = <<>>
  /\ main = NoMain
  /\ \E r \in QueryResolvers, n \in {"example.com", "bad..example"} :
       \E k \in 0..Len(BlockingSteps(r)), id \in MsgIds, wl \in WireLens :
          \E rep \in (IF k = Len(BlockingSteps(r)) THEN ReplyChoices(r) ELSE {NoReply}) :
             /\ r.variant \notin {"doh", "doh3"} => id = 4660
             /\ r.variant # "doq" => wl = 29
             /\ wait = [NoWait EXCEPT !.pc = "start", !.r = r, !.name = n,
                                      !.answersUntil = k, !.reply = rep,
                                      !.msgId = id, !.wireLen = wl]

otherVars ==
  <<raw, origin, cfg, phase, newIdx, resolvers, built, runPc, pos, hostname, issued,
    reported, probes, lastResult, cancelAt, closed, closeCalls, rnd, prefix, qtype,
    queried, closeWarnings, lastFail, exchanges, delayMs, metrics, main>>

\* The Query followed, as it begins its i-th waiting operation: the step
\* joins the trace, and the DoQ writes put their bytes on the stream.
EnterStep(w, i) ==
  LET s == BlockingSteps(w.r)[i].name
  IN  [w EXCEPT !.pc = "blocked", !.step = i, !.trace = Append(w.trace, s),
                !.sentPrefix = IF w.r.variant = "doq" /\ s = "writeLen"
                               THEN EncodeLen(w.wireLen) ELSE w.sentPrefix,
                !.sentMsg = IF w.r.variant = "doq" /\ s = "writeMsg"
                            THEN w.wireLen ELSE w.sentMsg]

\* The request a DoH or DoH3 Query has built when it calls httpClient.Do.
RequestOf(w) ==
  CASE w.r.variant = "doh"  -> DoHRequest(w.r, w.name, TypeA, w.msgId)
    [] w.r.variant = "doh3" -> DoH3Request(w.r, w.name, TypeA, w.msgId)
    [] OTHER -> NoRequest

\* Query is entered: the message is packed (and, for DoH and DoH3, the request
\* built); a failure there returns at once, otherwise the first wait begins.
QueryEnter ==
  /\ wait.pc = "start"
  /\ LET pre == PreludeFailure(wait.r, wait.name)
     IN  IF pre # "none"
         THEN \E elapsed \in ElapsedChoices :
                wait' = [wait EXCEPT !.pc = "returned", !.endedBy = "local",
                           !.result = Query(wait.r, wait.name, pre, elapsed)]
         ELSE IF cancelled /\ BlockingSteps(wait.r)[1].ctx
         THEN \E elapsed \in ElapsedChoices :
                wait' = [EnterStep(wait, 1) EXCEPT !.pc = "returned", !.endedBy = "cancel",
                           !.request = RequestOf(wait),
                           !.result = Query(wait.r, wait.name,
                                            BlockingSteps(wait.r)[1].name, elapsed)]
         ELSE wait' = [EnterStep(wait, 1) EXCEPT !.request = RequestOf(wait)]
  /\ UNCHANGED cancelled
  /\ UNCHANGED otherVars

\* The server answers the operation at hand; after the last one the response
\* is unpacked and Query returns it.
StepReply ==
  /\ wait.pc = "blocked"
  /\ wait.step <= wait.answersUntil
  /\ LET steps == BlockingSteps(wait.r)
         s     == steps[wait.step].name
         isLast == wait.answersUntil = Len(steps)
         len   == IF wait.r.variant = "doq" /\ s = "readLen"
                  THEN DecodeLen(wait.reply.lenBytes) ELSE wait.respLength
         out   == IF wait.step < Len(steps) /\ ~(s = "do" /\ isLast /\ wait.reply.kind = "status")
                  THEN "continue"
                  ELSE ReplyOutcome(wait.r, wait.reply, s, isLast, len)
         local == IF out = s THEN <<>> ELSE LocalStepsAfter(wait.r, s)
         w     == [wait EXCEPT !.respLength = len,
                               !.trace = wait.trace \o local,
                               !.fin = wait.fin \/ (wait.r.variant = "doq" /\ s = "writeMsg"),
                               !.bodyRead = IF wait.r.variant = "doq" /\ s = "readBody"
                                               /\ out # "readBody"
                                            THEN len ELSE wait.bodyRead]
     IN  IF out = "continue"
         THEN wait' = EnterStep(w, wait.step + 1)
         ELSE \E elapsed \in ElapsedChoices :
                wait' = [w EXCEPT !.pc = "returned", !.endedBy = "reply",
                            !.result = Query(wait.r, wait.name, out, elapsed)]
  /\ UNCHANGED cancelled
  /\ UNCHANGED otherVars

\* r.timeout runs out on the operation at hand: its deadline passes, or the
\* connection's idle timeout fires because the server has gone silent.
StepTimeout ==
  /\ wait.pc = "blocked"
  /\ LET s == BlockingSteps(wait.r)[wait.step]
     IN  /\ s.deadline \/ (s.idle /\ wait.step > wait.answersUntil)
         /\ \E elapsed \in ElapsedChoices :
              wait' = [wait EXCEPT !.pc = "returned", !.endedBy = "timeout",
                         !.result = Query(wait.r, wait.name, s.name, elapsed)]
  /\ UNCHANGED cancelled
  /\ UNCHANGED otherVars

\* The context handed to Query is cancelled while an operation that observes
\* it is waiting.
StepCancelled ==
  /\ wait.pc = "blocked"
  /\ cancelled
  /\ LET s == BlockingSteps(wait.r)[wait.step]
     IN  /\ s.ctx
         /\ \E elapsed \in ElapsedChoices :
              wait' = [wait EXCEPT !.pc = "returned", !.endedBy = "cancel",
                         !.result = Query(wait.r, wait.name, s.name, elapsed)]
  /\ UNCHANGED cancelled
  /\ UNCHANGED otherVars

\* cancel() of the context handed to Query.
CtxCancel ==
  /\ wait.pc \in {"start", "blocked"}
  /\ ~cancelled
  /\ cancelled' = TRUE
  /\ UNCHANGED wait
  /\ UNCHANGED main
  /\ UNCHANGED otherVars

NextQuery ==
  \/ QueryEnter
  \/ StepReply
  \/ StepTimeout
  \/ StepCancelled
  \/ CtxCancel

\* Time passes and the runtime schedules: a timer that is due fires, a reply
\* that arrived is read, a call that was made is entered.
SpecQuery ==
  /\ InitQuery
  /\ [][NextQuery]_vars
  /\ WF_vars(QueryEnter)
  /\ WF_vars(StepReply)
  /\ WF_vars(StepTimeout)

Next ==
  \/ Load
  \/ Direct
  \/ NewStep
  \/ NewReturn
  \/ RunStart
  \/ RunCheck
  \/ RunQuery
  \/ ProbeFinish
  \/ RunSleep
  \/ Cancel
  \/ Close

Spec == Init /\ [][Next]_vars

(***************************************************************************)
(* run() of the command: Load, New, the probing goroutine (Run, 30 s of    *)
(* sleep, again) and the main thread that waits for a signal, cancels the  *)
(* context, shuts the HTTP server down and returns through its deferred    *)
(* calls.  When run() has returned, main returns and the process is over.  *)
(***************************************************************************)
MainConfigs ==
  {c \in MatrixConfigs :
     Len(c.Domains) = 1 /\ c.Domains[1].Probes * Len(c.DNSServers) = 2}

InitMain ==
  /\ raw \in MainConfigs
  /\ origin = "none"
  /\ cfg = NilConfig
  /\ phase = "start"
  /\ newIdx = 1
  /\ resolvers = <<>>
  /\ built = [called |-> FALSE, idx |-> 0, server |-> NoServer, r |-> NilResolver, err |-> "nil"]
  /\ runPc = "idle"
  /\ pos = <<0, 0, 0>>
  /\ hostname = ""
  /\ issued = 0
  /\ reported = <<>>
  /\ probes = <<>>
  /\ lastResult = NoResult
  /\ cancelled = FALSE
  /\ cancelAt = [pc |-> "none", issued |-> 0]
  /\ closed = <<>>
  /\ closeCalls = 0
  /\ rnd = NoRandom
  /\ prefix = <<>>
  /\ qtype = 0
  /\ queried = {}
  /\ closeWarnings = {}
  /\ wait = NoWait
  /\ lastFail = "none"
  /\ exchanges = 0
  /\ delayMs = 0
  /\ metrics = <<>>
  /\ main = [NoMain EXCEPT !.mainPc = "start"]

\* Everything but runPc and main.
progVars ==
  <<configVars, pos, hostname, issued, reported, probes, lastResult, cancelled, cancelAt,
    closed, closeCalls, nameVars, closeVars, wait, probeVars>>

\* The goroutine runs for as long as the process does.
GoroutineLives == main.mainPc \in {"serving", "signalled", "deferred"}

\* Lines 47-56: config.Load and prober.New.
MainLoad == main.mainPc = "start" /\ Load

MainNew == main.mainPc = "start" /\ (NewStep \/ NewReturn)

\* Lines 57-74: defer p.Close(), the context, the signal channel, go func().
MainGo ==
  /\ main.mainPc = "start"
  /\ phase = "ready"
  /\ main' = [main EXCEPT !.mainPc = "serving", !.gPc = "select"]
  /\ UNCHANGED runPc
  /\ UNCHANGED progVars

\* Variant: the loop without its case <-ctx.Done().
GoSelectIgnoresDone ==
  /\ GoroutineLives
  /\ main.gPc = "select"
  /\ main.cycles < MaxCycles
  /\ main' = [main EXCEPT !.gPc = "run", !.cycles = @ + 1, !.active = @ + 1]
  /\ runPc' = "idle"
  /\ UNCHANGED progVars

\* Lines 66-70: the select of the loop.  The default branch is taken only when
\* ctx.Done() is not ready; it calls p.Run(ctx).
GoSelect ==
  /\ GoroutineLives
  /\ main.gPc = "select"
  /\ IF cancelled
     THEN /\ main' = [main EXCEPT !.gPc = "exited"]
          /\ UNCHANGED runPc
     ELSE /\ main.cycles < MaxCycles
          /\ main' = [main EXCEPT !.gPc = "run", !.cycles = @ + 1, !.active = @ + 1]
          /\ runPc' = "idle"
  /\ UNCHANGED progVars

\* Line 71: p.Run(ctx), step by step.
GoRun ==
  /\ GoroutineLives
  /\ main.gPc = "run"
  /\ RunStart \/ RunCheck \/ RunQuery \/ ProbeFinish \/ RunSleep

\* Lines 71-72: Run has returned; time.Sleep(30 * time.Second) begins.
GoRunReturn ==
  /\ GoroutineLives
  /\ main.gPc = "run"
  /\ runPc = "done"
  /\ main' = [main EXCEPT !.gPc = "sleep30", !.active = @ - 1]
  /\ UNCHANGED runPc
  /\ UNCHANGED progVars

\* Line 72: the 30 s are over, whatever the context says; back to the select.
GoWake ==
  /\ GoroutineLives
  /\ main.gPc = "sleep30"
  /\ main' = [main EXCEPT !.gPc = "select"]
  /\ UNCHANGED runPc
  /\ UNCHANGED progVars

\* Line 98: <-sigChan delivers SIGINT or SIGTERM.
MainSignal ==
  /\ main.mainPc = "serving"
  /\ main' = [main EXCEPT !.mainPc = "signalled"]
  /\ UNCHANGED runPc
  /\ UNCHANGED progVars

\* Line 101: cancel().
MainCancel == main.mainPc = "signalled" /\ Cancel

\* Lines 103-107: server.Shutdown has returned; the deferred calls are next
\* (shutdownCancel and cancel change nothing any more).
MainShutdown ==
  /\ main.mainPc = "signalled"
  /\ cancelled
  /\ main' = [main EXCEPT !.mainPc = "deferred"]
  /\ UNCHANGED runPc
  /\ UNCHANGED progVars

\* Line 56, run at return: the deferred p.Close().
MainClose == main.mainPc = "deferred" /\ closeCalls = 0 /\ Close

\* run() returns; Execute and main return; the process ends, and the
\* goroutine with it.
MainReturn ==
  /\ main.mainPc = "deferred"
  /\ closeCalls = 1
  /\ main' = [main EXCEPT !.mainPc = "returned"]
  /\ UNCHANGED runPc
  /\ UNCHANGED progVars

NextMain ==
  \/ MainLoad
  \/ MainNew
  \/ MainGo
  \/ GoSelect
  \/ GoRun
  \/ GoRunReturn
  \/ GoWake
  \/ MainSignal
  \/ MainCancel
  \/ MainShutdown
  \/ MainClose
  \/ MainReturn

\* The scheduler runs a goroutine that can run, and the main thread goes on
\* once it has its signal; the signal itself may never come.
SpecMain ==
  /\ InitMain
  /\ [][NextMain]_vars
  /\ WF_vars(GoSelect)
  /\ WF_vars(GoRun)
  /\ WF_vars(GoRunReturn)
  /\ WF_vars(GoWake)
  /\ WF_vars(MainCancel)
  /\ WF_vars(MainShutdown)
  /\ WF_vars(MainClose)
  /\ WF_vars(MainReturn)

(***************************************************************************)
(* metrics.RecordQuery on its own, over any sequence of calls.             *)
(***************************************************************************)
InitMetrics ==
  /\ raw = CHOOSE c \in MatrixConfigs : TRUE
  /\ origin = "none"
  /\ cfg = NilConfig
  /\ phase = "start"
  /\ newIdx = 1
  /\ resolvers = <<>>
  /\ built = [called |-> FALSE, idx |-> 0, server |-> NoServer, r |-> NilResolver, err |-> "nil"]
  /\ runPc = "idle"
  /\ pos = <<0, 0, 0>>
  /\ hostname = ""
  /\ issued = 0
  /\ reported = <<>>
  /\ probes = <<>>
  /\ lastResult = NoResult
  /\ cancelled = FALSE
  /\ cancelAt = [pc |-> "none", issued |-> 0]
  /\ closed = <<>>
  /\ closeCalls = 0
  /\ rnd = NoRandom
  /\ prefix = <<>>
  /\ qtype = 0
  /\ queried = {}
  /\ closeWarnings = {}
  /\ wait = NoWait
  /\ lastFail = "none"
  /\ exchanges = 0
  /\ delayMs = 0
  /\ metrics = <<>>
  /\ main = NoMain

RECURSIVE TotalCount(_, _)
TotalCount(mv, ls) ==
  IF ls = {} THEN 0
  ELSE LET l == CHOOSE x \in ls : TRUE
       IN  mv[l].count + TotalCount(mv, ls \ {l})

\* One call RecordQuery(domain, server, protocol, duration, success).
RecordCall ==
  /\ TotalCount(metrics, DOMAIN metrics) < MaxCalls
  /\ \E domain \in {"example.com", "example.org"}, server \in {"192.0.2.1:53", "192.0.2.1:853"},
        duration \in {1, 2}, success \in BOOLEAN :
        metrics' = MetricsRecord(metrics, domain, server,
                                 IF server = "192.0.2.1:53" THEN ProtocolDo53UDP ELSE ProtocolDoT,
                                 duration, success)
  /\ UNCHANGED <<lastFail, exchanges, delayMs>>
  /\ UNCHANGED <<cancelled, cancelAt, closed, closeCalls>>
  /\ UNCHANGED configVars
  /\ UNCHANGED runVars
  /\ UNCHANGED nameVars
  /\ UNCHANGED closeVars
  /\ UNCHANGED wait
  /\ UNCHANGED main

SpecMetrics == InitMetrics /\ [][RecordCall]_vars


(***************************************************************************)
(* Properties.                                                             *)
(***************************************************************************)
RECURSIVE Flatten(_)
Flatten(ss) == IF Len(ss) = 0 THEN <<>> ELSE Head(ss) \o Flatten(Tail(ss))

\* The configured matrix written out: domain-major, then server, then
\* repetition 1..probes.
ExpectedOrder(c) ==
  Flatten([d \in 1..Len(c.Domains) |->
    Flatten([s \in 1..Len(c.DNSServers) |->
      [i \in 1..c.Domains[d].Probes |-> <<d, s, i>>]])])

\* The resolver Run uses for the i-th configured server.
ResolverOf(i) == resolvers[serverKey(cfg.DNSServers[i])]

\* Run returned and cancel() had not been called before it did.
CompletedUncancelled == runPc = "done" /\ (~cancelled \/ cancelAt.pc = "done")

\* C1: a cycle that runs to completion without cancellation reports exactly
\* the configured matrix, one outcome per (domain, server, repetition), in
\* domain-major order, then server order, then repetition 1..probes.
C1_CycleReportsMatrixInOrder ==
  CompletedUncancelled =>
    /\ probes = ExpectedOrder(cfg)
    /\ Len(reported) = Len(probes)
    /\ \A k \in 1..Len(reported) :
         /\ reported[k].domain = cfg.Domains[probes[k][1]].Name
         /\ reported[k].server = cfg.DNSServers[probes[k][2]].Address \o ":" \o
                                 cfg.DNSServers[probes[k][2]].Port

C1_Witness ==
  /\ CompletedUncancelled
  /\ Len(cfg.Domains) = 1 /\ cfg.Domains[1].Probes = 2
  /\ Len(cfg.DNSServers) = 1 /\ cfg.DNSServers[1].Protocol = ProtocolDo53UDP
  /\ Len(reported) = 2

C3_InFlightResultUnreported ==
  (cancelled /\ cancelAt.pc = "inflight") => Len(reported) < cancelAt.issued

\* C3, amended: Run has no cancellation check between the return of Query
\* and RecordQuery, so every Query that returns is reported, also the one
\* that was in flight at cancel(); it is the last outcome of the cycle, and
\* no outcome exists for a probe whose Query was not issued.
C3_InFlightResultReported ==
  /\ Len(reported) = IF runPc = "inflight" THEN issued - 1 ELSE issued
  /\ (cancelled /\ cancelAt.pc = "inflight" /\ runPc # "inflight") =>
        /\ Len(reported) = cancelAt.issued
        /\ issued = cancelAt.issued

C3_Witness ==
  /\ cancelled /\ cancelAt.pc = "inflight" /\ runPc = "done"
  /\ Len(reported) = cancelAt.issued
  /\ Len(ExpectedOrder(cfg)) > Len(reported)

\* A Query has just returned lastResult from the resolver at pos.
Returned == runPc = "sleep"

\* C4 as stated: every QueryResult has Response present iff Err is absent.
C4_ResponseIffNoErr ==
  Returned => ((lastResult.Response # "nil") <=> (lastResult.Err = "nil"))

\* C4, amended: Response is present whenever Err is absent (never both
\* absent); for doh, doh3 and doq Response is present iff Err is absent;
\* do53 and dot return ExchangeContext's pair as it is, so a Response can
\* accompany an Err.
C4_ResponseWhenNoErr ==
  Returned =>
    /\ lastResult.Err = "nil" => lastResult.Response # "nil"
    /\ ResolverOf(pos[2]).variant \in {"doh", "doh3", "doq"} =>
         ((lastResult.Response # "nil") <=> (lastResult.Err = "nil"))

C4_Witness ==
  /\ Returned
  /\ ResolverOf(pos[2]).variant = "do53"
  /\ lastResult.Response # "nil" /\ lastResult.Err # "nil"

PreStartErrors == {"failed to pack DNS message", "failed to create HTTP request"}

\* C5 as stated: Duration is non-negative and populated whenever Err is set.
C5_DurationAlwaysPopulated ==
  Returned =>
    /\ lastResult.Duration >= 0
    /\ lastResult.Err # "nil" => lastResult.timed

\* C5, amended: Duration is non-negative on every return path and is the
\* elapsed time on success and on every failure after the clock was started;
\* the failures before that (message pack failure in doh, doh3, doq; HTTP
\* request construction failure in doh, doh3) leave Duration unset (zero);
\* do53 and dot populate it always.
C5_DurationPopulatedAfterStart ==
  Returned =>
    /\ lastResult.Duration >= 0
    /\ lastResult.timed <=> lastResult.Err \notin PreStartErrors
    /\ ~lastResult.timed =>
         /\ lastResult.Duration = 0
         /\ ResolverOf(pos[2]).variant \in {"doh", "doh3", "doq"}

C5_Witness ==
  /\ Returned
  /\ ResolverOf(pos[2]).variant = "doq"
  /\ lastResult.Err = "failed to pack DNS message"
  /\ ~lastResult.timed

\* C6: a failed probe never ends the cycle: Run returns before the matrix
\* is exhausted only when the context was cancelled before it returned.
C6_OnlyCancellationStopsCycle ==
  (runPc = "done" /\ Len(reported) < Len(ExpectedOrder(cfg))) =>
     (cancelled /\ cancelAt.pc # "done")

C6_Witness ==
  /\ CompletedUncancelled
  /\ Len(reported) >= 2
  /\ ~reported[1].success
  /\ Len(reported) = Len(ExpectedOrder(cfg))

\* C7: every resolver NewResolver built has a Protocol() among the six tags,
\* equal to the tag of the server configuration it was built from, in every
\* state: before and after Query and Close calls, whatever their outcome.
C7_ProtocolIsConfiguredTag ==
  /\ (built.called /\ built.err = "nil") =>
        /\ Protocol(built.r) \in ValidProtocols
        /\ Protocol(built.r) = built.server.Protocol
  /\ phase = "ready" =>
        \A i \in 1..Len(cfg.DNSServers) :
           /\ Protocol(ResolverOf(i)) \in ValidProtocols
           /\ Protocol(ResolverOf(i)) = cfg.DNSServers[i].Protocol

C7_Witness ==
  /\ phase = "ready"
  /\ cfg.DNSServers[1].Protocol = ProtocolDo53TCP
  /\ Protocol(ResolverOf(1)) = ProtocolDo53TCP
  /\ Len(reported) = 1 /\ ~reported[1].success
  /\ closeCalls >= 1

\* C8: NewResolver given an empty or unrecognised protocol tag returns an
\* error and no resolver, and New holds no resolver for that server.
C8_UnknownTagRejected ==
  (built.called /\ built.server.Protocol \notin ValidProtocols) =>
     /\ built.r = NilResolver
     /\ built.err # "nil"
     /\ phase = "newFailed"
     /\ serverKey(built.server) \notin DOMAIN resolvers

C8_Witness ==
  /\ built.called
  /\ built.server.Protocol = ""
  /\ built.r = NilResolver /\ built.err = "unsupported protocol"

\* C9 as stated: the factory, given a binding with an unset protocol tag,
\* constructs a Resolver whose Protocol() is do53-udp.
C9_FactoryDefaultsUnsetTag ==
  (built.called /\ built.server.Protocol = "") =>
     /\ built.err = "nil"
     /\ Protocol(built.r) = ProtocolDo53UDP

\* C9, amended: config.Load replaces an unset protocol tag by do53-udp, so
\* the Resolver built for a loaded binding whose tag was unset has
\* Protocol() = do53-udp; the factory applies no default: NewResolver given
\* an unset tag returns an error and no Resolver.
C9_LoadDefaultsUnsetTag ==
  built.called =>
    /\ (origin = "load" /\ raw.DNSServers[built.idx].Protocol = "") =>
          /\ built.err = "nil"
          /\ Protocol(built.r) = ProtocolDo53UDP
    /\ built.server.Protocol = "" =>
          /\ origin = "direct"
          /\ built.err # "nil" /\ built.r = NilResolver

C9_Witness ==
  /\ built.called /\ origin = "load"
  /\ raw.DNSServers[built.idx].Protocol = ""
  /\ built.err = "nil" /\ Protocol(built.r) = ProtocolDo53UDP

\* The standard port of a protocol.
StandardPort(protocol) ==
  IF protocol \in {"do53-udp", "do53-tcp"} THEN "53"
  ELSE IF protocol \in {"dot", "doq"} THEN "853"
  ELSE "443"

\* Where a resolver of the given protocol sends for address and port.
TargetFor(protocol, address, port) ==
  IF protocol \in {"doh", "doh3"}
  THEN "https://" \o address \o ":" \o port \o "/dns-query"
  ELSE address \o ":" \o port

\* C10 as stated: for a binding whose port is unset, every resolver a Prober
\* holds queries the standard port of its protocol, whichever way the config
\* was obtained.
C10_UnsetPortIsStandardPort ==
  phase = "ready" =>
    \A i \in 1..Len(cfg.DNSServers) :
       raw.DNSServers[i].Port = "" =>
          QueryTarget(ResolverOf(i)) =
             TargetFor(Protocol(ResolverOf(i)), raw.DNSServers[i].Address,
                       StandardPort(Protocol(ResolverOf(i))))

\* C10, amended: for a binding whose port is unset in a configuration
\* obtained through config.Load, the resolver queries the standard port of
\* its protocol; New and NewResolver apply no port default, so a Prober built
\* from a Config that did not pass through Load queries the port as given,
\* the empty port when it is unset.
C10_LoadedUnsetPortIsStandardPort ==
  phase = "ready" =>
    \A i \in 1..Len(cfg.DNSServers) :
       /\ (origin = "load" /\ raw.DNSServers[i].Port = "") =>
             QueryTarget(ResolverOf(i)) =
                TargetFor(Protocol(ResolverOf(i)), raw.DNSServers[i].Address,
                          StandardPort(Protocol(ResolverOf(i))))
       /\ origin = "direct" =>
             QueryTarget(ResolverOf(i)) =
                TargetFor(Protocol(ResolverOf(i)), raw.DNSServers[i].Address,
                          raw.DNSServers[i].Port)

C10_Witness ==
  /\ phase = "ready" /\ origin = "load"
  /\ raw.DNSServers[1].Port = "" /\ raw.DNSServers[1].Protocol = ProtocolDoQ
  /\ QueryTarget(ResolverOf(1)) = "192.0.2.1:853"
  /\ issued >= 1


\* C11: for an encrypted protocol the TLS server name bound to the resolver
\* is the configured tls.server_name when that is non-empty and the server
\* address otherwise (tls block absent, or present with an empty name); the
\* skip-verify flag is the configured one, false when there is no tls block.
C11_TLSNameDefaultsToAddress ==
  phase = "ready" =>
    \A i \in 1..Len(cfg.DNSServers) :
       IsEncryptedProtocol(Protocol(ResolverOf(i))) =>
          /\ ResolverOf(i).serverName =
               IF raw.DNSServers[i].TLS.present /\ raw.DNSServers[i].TLS.ServerName # ""
               THEN raw.DNSServers[i].TLS.ServerName
               ELSE raw.DNSServers[i].Address
          /\ ResolverOf(i).insecure =
               (raw.DNSServers[i].TLS.present /\ raw.DNSServers[i].TLS.InsecureSkipVerify)
          /\ ResolverOf(i).variant \in {"doh", "doh3"} =>
               ResolverOf(i).host = ResolverOf(i).serverName

C11_Witness ==
  /\ phase = "ready" /\ origin = "direct"
  /\ raw.DNSServers[1].Protocol = ProtocolDoT
  /\ raw.DNSServers[1].TLS.present /\ raw.DNSServers[1].TLS.ServerName = ""
  /\ ResolverOf(1).serverName = "192.0.2.1"
  /\ ResolverOf(1).insecure


\* The (address, port, protocol) triple of a configured server.
Triple(s) == <<s.Address, s.Port, s.Protocol>>

\* C12: after a successful New the Prober holds one Resolver per distinct
\* (address, port, protocol) triple among the configured servers, and two
\* configured servers whose triples differ never map to the same Resolver
\* instance: serverKey is injective on triples.
C12_OneResolverPerTriple ==
  phase = "ready" =>
    /\ Cardinality(DOMAIN resolvers) =
         Cardinality({Triple(cfg.DNSServers[i]) : i \in 1..Len(cfg.DNSServers)})
    /\ \A i, j \in 1..Len(cfg.DNSServers) :
         Triple(cfg.DNSServers[i]) # Triple(cfg.DNSServers[j]) =>
           serverKey(cfg.DNSServers[i]) # serverKey(cfg.DNSServers[j])

\* C13: when any configured server has an unrecognised protocol tag, New
\* returns an error and no Prober, whatever the position of that server and
\* however many valid servers precede it.
C13_InvalidTagFailsNew ==
  /\ (phase \in {"config", "newFailed", "ready"}
        /\ \E i \in 1..Len(cfg.DNSServers) : cfg.DNSServers[i].Protocol \notin ValidProtocols)
       => /\ phase # "ready"
          /\ newIdx <= Len(cfg.DNSServers)
          /\ \A i \in 1..newIdx - 1 : cfg.DNSServers[i].Protocol \in ValidProtocols
  /\ phase = "newFailed" => built.err # "nil" /\ runPc = "idle"

C13_Witness ==
  /\ phase = "newFailed"
  /\ built.idx = Len(cfg.DNSServers) /\ built.idx > 1
  /\ built.server.Protocol = "invalid"
  /\ \A i \in 1..built.idx - 1 : cfg.DNSServers[i].Protocol \in ValidProtocols
  /\ DOMAIN resolvers # {}


\* The characters base32.StdEncoding can emit.
Base32Chars == {Base32Alphabet[i] : i \in 1..32}

\* C14 as stated: the label generator called with length 5 returns exactly
\* 8 characters of the alphabet A-Z, 2-7 on every outcome of the random
\* source, its failure included.
C14_LabelAlwaysBase32 ==
  prefix # <<>> =>
    /\ Len(Join(prefix)) = 8
    /\ \A i \in 1..Len(prefix) : prefix[i] \in Base32Chars

\* C14 amended: when the random source succeeds the label has exactly 8
\* characters of the alphabet A-Z, 2-7 (no padding); when it fails the label
\* is the fixed string "random".
C14_LabelBase32UnlessRandFails ==
  prefix # <<>> =>
    IF rnd.err
    THEN Join(prefix) = "random"
    ELSE /\ Len(Join(prefix)) = 8
         /\ \A i \in 1..Len(prefix) : prefix[i] \in Base32Chars

C14_Witness ==
  /\ ~rnd.err
  /\ rnd.bytes = <<97, 97, 255, 0, 255>>
  /\ Join(prefix) = "MFQ76AH7"


\* C15: each Prober.Close call invokes Close on every held Resolver exactly
\* once, and a Close error from one resolver is reported without keeping
\* Close from the remaining ones.
C15_CloseReachesEveryResolver ==
  /\ DOMAIN closed = DOMAIN resolvers
  /\ \A k \in DOMAIN resolvers : closed[k] = closeCalls
  /\ closeWarnings \subseteq DOMAIN resolvers

C15_Witness ==
  /\ closeCalls = 1
  /\ closeWarnings # {}
  /\ Cardinality(DOMAIN resolvers) >= 2
  /\ \A k \in DOMAIN resolvers : closed[k] = 1

\* C16: Close is idempotent: a Prober.Close call, the second like the first,
\* ends without a fatal error and changes nothing of the Prober or of its
\* resolvers, and Close on a resolver that was never queried returns no
\* error, whatever its variant.
C16_CloseIdempotent ==
  [][closeCalls' = closeCalls + 1 =>
       /\ phase' = "ready"
       /\ resolvers' = resolvers /\ cfg' = cfg /\ queried' = queried
       /\ runVars' = runVars
       /\ \A k \in DOMAIN resolvers : k \notin queried => k \notin closeWarnings']_vars

C16_Witness ==
  /\ closeCalls = 2
  /\ queried = {}
  /\ \E k \in DOMAIN resolvers : resolvers[k].variant = "doh3"
  /\ closeWarnings = {}


\* The server of the Query followed leaves the last operation unanswered.
NeverAnswers == wait.answersUntil < Len(BlockingSteps(wait.r))

C18_ReportedOutcomeFields ==
  /\ Len(reported) = Len(probes)
  /\ \A k \in 1..Len(reported) :
       LET domain == cfg.Domains[probes[k][1]]
           server == cfg.DNSServers[probes[k][2]]
       IN  /\ reported[k].domain = domain.Name
           /\ reported[k].server = server.Address \o ":" \o server.Port
           /\ reported[k].protocol = Protocol(resolvers[serverKey(server)])
  /\ runPc \in {"inflight", "sleep"} =>
       /\ qtype = TypeA
       /\ hostname = Join(prefix) \o "." \o cfg.Domains[pos[1]].Name
       /\ prefix = generateRandomPrefix(PrefixLength, rnd)
  /\ runPc = "sleep" =>
       /\ reported[Len(reported)].duration = <<lastResult.Duration, NanosPerSecond>>
       /\ reported[Len(reported)].success = (lastResult.Err = "nil")
       /\ reported[Len(reported)].domain # hostname

C18_Witness ==
  /\ runPc = "sleep"
  /\ hostname = "MFRGGZDF.example.org"
  /\ qtype = 1
  /\ reported[Len(reported)] =
       [domain |-> "example.org", server |-> "198.51.100.7:443", protocol |-> "doh",
        duration |-> <<1, 1000000000>>, success |-> FALSE]
  /\ lastResult.Err # "nil"


\* C19: the timeout every resolver is built with is 2000 ms when the
\* configured timeout is zero or absent and the configured number of
\* milliseconds otherwise; New succeeds with a timeout of 0.
C19_EffectiveTimeout ==
  LET expected == IF raw.Timeout = 0 THEN 2000 ELSE raw.Timeout
  IN  /\ (built.called /\ built.err = "nil") => built.r.timeout = expected
      /\ \A k \in DOMAIN resolvers : resolvers[k].timeout = expected

C19_Witness ==
  /\ phase = "ready"
  /\ raw.Timeout = 0
  /\ \E k \in DOMAIN resolvers : resolvers[k].timeout = 2000

\* C20: Load applies the default protocol before it validates: a server
\* written without a protocol has the tag do53-udp after Load and is not
\* rejected; every server of a configuration Load returned has one of the six
\* tags; a configuration with any other tag makes Load return an error and no
\* configuration.
C20_LoadDefaultsThenValidates ==
  origin = "load" =>
    /\ phase = "loadFailed" <=>
         \E i \in 1..Len(raw.DNSServers) :
            raw.DNSServers[i].Protocol \notin ValidProtocols \cup {""}
    /\ phase = "loadFailed" => cfg = NilConfig
    /\ phase # "loadFailed" =>
         /\ Len(cfg.DNSServers) = Len(raw.DNSServers)
         /\ \A i \in 1..Len(cfg.DNSServers) :
              /\ cfg.DNSServers[i].Protocol \in ValidProtocols
              /\ cfg.DNSServers[i].Protocol =
                   IF raw.DNSServers[i].Protocol = "" THEN ProtocolDo53UDP
                   ELSE raw.DNSServers[i].Protocol

C20_Witness ==
  /\ origin = "load" /\ phase = "ready"
  /\ raw.DNSServers[1].Protocol = ""
  /\ cfg.DNSServers[1].Protocol = "do53-udp"
  /\ Protocol(ResolverOf(1)) = "do53-udp"


\* C21: no retry and no fallback: each probe iteration of Run calls Query
\* once, on the resolver bound to the server of the iteration; a Query
\* performs at most one request/response exchange; a truncated do53-udp
\* reply is returned as success, without a retry over TCP.
C21_NoRetryNoFallback ==
  /\ issued = Len(probes) + (IF runPc = "inflight" THEN 1 ELSE 0)
  /\ runPc = "inflight" => serverKey(cfg.DNSServers[pos[2]]) \in queried
  /\ exchanges <= 1
  /\ (runPc = "sleep" /\ lastFail = "truncated") =>
       /\ ResolverOf(pos[2]).variant = "do53" /\ ResolverOf(pos[2]).net = "udp"
       /\ lastResult.Response = "truncated msg"
       /\ lastResult.Err = "nil"
       /\ reported[Len(reported)].success
       /\ exchanges = 1

C21_Witness ==
  /\ runPc = "sleep"
  /\ lastFail = "truncated"
  /\ lastResult.Response = "truncated msg"
  /\ reported[Len(reported)].success
  /\ issued = 2 /\ Len(probes) = 2


\* The steps of a DoQ Query, in the order of the code.
DoQOrder ==
  <<"dial", "stream", "writeLen", "writeMsg", "closeSend", "readLen", "readBody", "unpack">>

IsPrefix(s, t) == Len(s) <= Len(t) /\ s = SubSeq(t, 1, Len(s))

C23_DoH3SameWireAsDoH ==
  /\ (wait.r.variant = "doh3" /\ wait.request # NoRequest) =>
       wait.request = DoHRequest(wait.r, wait.name, TypeA, wait.msgId)
  /\ (wait.r.variant \in {"doh", "doh3"} /\ wait.pc = "returned"
        /\ wait.endedBy = "reply" /\ wait.reply.kind = "status") =>
       /\ wait.result.Err # "nil"
       /\ wait.result.Response = "nil"


\* C24: within a cycle exactly one 500 ms delay lies between two consecutive
\* Query invocations: when the n-th Query of the cycle is issued, n - 1
\* delays have been slept, whether or not a server or domain boundary was
\* crossed on the way.
C24_OneDelayBetweenQueries ==
  /\ runPc = "inflight" => delayMs = InterProbeDelayMs * (issued - 1)
  /\ runPc \in {"sleep", "check", "done"} => delayMs \in
       {InterProbeDelayMs * (Len(probes) - 1), InterProbeDelayMs * Len(probes)}

C24_Witness ==
  /\ runPc = "inflight"
  /\ issued = 3
  /\ delayMs = 2 * InterProbeDelayMs
  /\ Len(probes) = 2
  /\ probes[1][2] # probes[2][2]
  /\ probes[2][1] # pos[1]


\* C25: the inter-probe delay observes the context: once the context is
\* cancelled, a delay in progress is not waited out, so no step taken from a
\* cancelled delay completes the 500 ms.
C25_DelayEndsOnCancel ==
  [][(runPc = "sleep" /\ cancelled) => delayMs' = delayMs]_vars


\* C27: when New fails on a server, every Resolver it constructed for the
\* servers before that one has been closed by the time New returns.
C27_FailedNewClosesEarlier ==
  phase = "newFailed" => \A k \in DOMAIN resolvers : closed[k] >= 1

\* C28: every Resolver New constructs is held in the mapping, duplicates of
\* one triple included: after a successful New the number of Resolvers held
\* equals the number constructed (one per configured server).
C28_ConstructedEqualsHeld ==
  phase = "ready" =>
    /\ newIdx - 1 = Len(cfg.DNSServers)
    /\ Cardinality(DOMAIN resolvers) = newIdx - 1


\* C26: at shutdown, Prober.Close is never executed while the probing
\* goroutine is inside a cycle, in a Query or in an inter-probe delay of Run.
C26_CloseAfterLastRun ==
  [][closeCalls' > closeCalls =>
       ~(main.gPc = "run" /\ runPc \in {"inflight", "sleep"})]_vars

\* The counters of a label set, zero for one never recorded.
MetricsAt(mv, l) == IF l \in DOMAIN mv THEN mv[l] ELSE NoMetrics

\* C29: for every label set the number of observations is the success count
\* plus the failure count; a RecordQuery call adds one observation to one
\* label set and 1 to exactly one of its two counters, and no counter of any
\* label set decreases.
C29_ObservationsAreSuccessPlusFailure ==
  [][ /\ \A l \in DOMAIN metrics' :
           metrics'[l].count = metrics'[l].success + metrics'[l].failures
      /\ metrics' # metrics =>
           \E l \in DOMAIN metrics' :
              /\ metrics'[l].count = MetricsAt(metrics, l).count + 1
              /\ \/ /\ metrics'[l].success = MetricsAt(metrics, l).success + 1
                    /\ metrics'[l].failures = MetricsAt(metrics, l).failures
                 \/ /\ metrics'[l].success = MetricsAt(metrics, l).success
                    /\ metrics'[l].failures = MetricsAt(metrics, l).failures + 1
              /\ \A k \in DOMAIN metrics' \ {l} : k \in DOMAIN metrics /\ metrics'[k] = metrics[k]
      /\ DOMAIN metrics \subseteq DOMAIN metrics' ]_vars

C29_Witness ==
  \E l, k \in DOMAIN metrics :
     /\ l # k
     /\ metrics[l].success = 1 /\ metrics[l].failures = 1 /\ metrics[l].count = 2
     /\ metrics[k].count = 1

=============================================================================
